---- MODULE Spec2Model ----
(***************************************************************************)
(* A model of the PyFORC data pipeline (src/Forc.py, src/util.py):         *)
(*   - the Savitzky-Golay convolution (util.fast_symmetric_convolve,       *)
(*     UniformForc._sg_kernel, UniformForc._compute_forc_sg),              *)
(*   - the UniformForc dataset and its transforms,                         *)
(*   - the PMC file parser (PMCImporter._extract_raw_data),                *)
(*   - the drift correction (PMCImporter._drift_correction),               *)
(*   - the flat extension (util.extend_flat).                              *)
(*                                                                         *)
(* Numbers.  The program computes in IEEE doubles.  The model computes in  *)
(* exact rationals: a number is a pair <<n, d>> with d > 0 in lowest       *)
(* terms, and the not-a-number value (the "missing" marker, numpy.nan) is  *)
(* the pair <<0, 0>>.  NaN propagates through every arithmetic operation   *)
(* as it does in IEEE arithmetic; rounding is not modelled.                *)
(***************************************************************************)
EXTENDS Integers, Sequences, FiniteSets, TLC

VARIABLES
    \* _compute_forc_sg applied to one array (the convolution engine alone)
    sg_m,       \* the input array: a sequence of rows of numbers
    sg_sf,      \* the smoothing factor passed
    sg_step,    \* the grid step passed as step_x and step_y
    sg_rho,     \* the returned array, <<>> before the call
    sg_pc,      \* "init" before the call, "done" after it
    \* the UniformForc objects and the calls made on them
    ds,         \* the objects constructed so far, in order of construction
    call,       \* the last call: receiver, arguments, outcome, receiver before
    ncalls,     \* the number of calls made
    nextId,     \* the next free array identity
    imported,   \* the first object as the importer built it
    query,      \* the last constructor call or query: arguments and outcome
    \* PMCImporter._extract_raw_data on the lines of one file
    lines,      \* the lines of the file: each the sequence of its comma-separated fields
    imp,        \* the PMCImporter object: h, hr, m, temperature, drift_points
    p_i,        \* the local i of _extract_raw_data (0-based)
    p_mode,     \* _has_drift_points(lines), once the loop is chosen
    p_pc,       \* "start", "loop", "done" or "raised"
    p_exc,      \* the exception raised, "" for none
    p_starts,   \* the value of i at the start of each completed loop iteration
    p_opts,     \* the options of the import (step, method), None before _interpolate
    \* PMCImporter._drift_correction on an importer that has read its file
    dc_args,    \* radius and density
    dc_pc,      \* "init", "done" or "raised"
    dc_exc,     \* the exception raised, "" for none
    dc_before,  \* the importer before the call
    \* util.extend_flat on one array
    fl_m,       \* the array being filled in place
    fl_i,       \* the row the loop is at (0-based)
    fl_pc,      \* "loop", "done" or "raised"
    fl_before   \* the array before the call

sgVars == <<sg_m, sg_sf, sg_step, sg_rho, sg_pc>>

dsVars == <<ds, call, ncalls, nextId, imported, query>>

parseVars == <<lines, imp, p_i, p_mode, p_pc, p_exc, p_starts, p_opts>>

driftVars == <<dc_args, dc_pc, dc_exc, dc_before>>

flatVars == <<fl_m, fl_i, fl_pc, fl_before>>

vars == <<sgVars, dsVars, parseVars, driftVars, flatVars>>

----------------------------------------------------------------------------
(* Rational arithmetic with NaN *)

RECURSIVE GCD(_, _)
GCD(a, b) == IF b = 0 THEN a ELSE GCD(b, a % b)

Abs(n) == IF n < 0 THEN -n ELSE n

NaN == <<0, 0>>

\* The element of a one-element set.  { F(v) : v \in {e} } names the value of e
\* once, the way a local variable of the program holds a result.
The(S) == CHOOSE v \in S : TRUE

IsNaN(x) == x[2] = 0

\* The number n/d in lowest terms (d # 0); 0/0 is NaN as in IEEE arithmetic.
Q(n, d) ==
    IF d = 0 THEN NaN
    ELSE LET g == GCD(Abs(n), Abs(d))
             s == IF d < 0 THEN -1 ELSE 1
         IN  <<(s * n) \div g, (s * d) \div g>>

I(n) == <<n, 1>>

\* The operations cancel common factors before they multiply, which keeps the
\* intermediate integers small; the values are those of the textbook formulas.
Add(x, y) == IF IsNaN(x) \/ IsNaN(y) THEN NaN
             ELSE LET g == GCD(x[2], y[2])
                  IN  Q(x[1] * (y[2] \div g) + y[1] * (x[2] \div g), (x[2] \div g) * y[2])

Neg(x) == <<-x[1], x[2]>>

Sub(x, y) == Add(x, Neg(y))

Mul(x, y) == IF IsNaN(x) \/ IsNaN(y) THEN NaN
             ELSE IF x[1] = 0 \/ y[1] = 0 THEN <<0, 1>>
             ELSE LET g1 == GCD(Abs(x[1]), y[2])
                      g2 == GCD(Abs(y[1]), x[2])
                  IN  <<(x[1] \div g1) * (y[1] \div g2), (x[2] \div g2) * (y[2] \div g1)>>

\* x / y.  In the program a division by zero happens only as 0/0 (normalize on a
\* constant array), which is NaN.
Div(x, y) == IF IsNaN(x) \/ IsNaN(y) \/ y[1] = 0 THEN NaN
             ELSE Mul(x, IF y[1] < 0 THEN <<-y[2], -y[1]>> ELSE <<y[2], y[1]>>)

\* x < y on numbers; every comparison with NaN is false, as in IEEE arithmetic.
Less(x, y) ==
    /\ ~IsNaN(x)
    /\ ~IsNaN(y)
    /\ LET g == GCD(x[2], y[2]) IN x[1] * (y[2] \div g) < y[1] * (x[2] \div g)

----------------------------------------------------------------------------
(* Arrays: a 2-D array is a non-empty sequence of rows of equal length *)

NRows(a) == Len(a)

NCols(a) == Len(a[1])

Shape(a) == <<NRows(a), NCols(a)>>

\* The sequence s as an explicit tuple (the same value, built once).
AsTuple(s) == s \o <<>>

\* The sum of the numbers s[lo..hi].  Exact arithmetic is associative, and a NaN
\* term makes the sum NaN in any order, so the sum is taken by halves.
RECURSIVE SumRange(_, _, _)
SumRange(s, lo, hi) ==
    IF lo > hi THEN I(0)
    ELSE IF lo = hi THEN s[lo]
    ELSE LET mid == (lo + hi) \div 2
         IN  Add(SumRange(s, lo, mid), SumRange(s, mid + 1, hi))

SumSeq(s) == SumRange(s, 1, Len(s))

\* min and max of two numbers as numpy.min/max combine them (NaN wins) and as
\* numpy.nanmin/nanmax do (NaN is skipped).
Combine(kind, x, y) ==
    CASE kind = "min" -> IF IsNaN(x) \/ IsNaN(y) THEN NaN ELSE IF Less(y, x) THEN y ELSE x
      [] kind = "max" -> IF IsNaN(x) \/ IsNaN(y) THEN NaN ELSE IF Less(x, y) THEN y ELSE x
      [] kind = "nanmin" -> IF IsNaN(x) THEN y ELSE IF IsNaN(y) THEN x
                            ELSE IF Less(y, x) THEN y ELSE x
      [] kind = "nanmax" -> IF IsNaN(x) THEN y ELSE IF IsNaN(y) THEN x
                            ELSE IF Less(x, y) THEN y ELSE x

RECURSIVE Fold(_, _, _, _)
Fold(kind, s, lo, hi) ==
    IF lo = hi THEN s[lo]
    ELSE LET mid == (lo + hi) \div 2
         IN  Combine(kind, Fold(kind, s, lo, mid), Fold(kind, s, mid + 1, hi))

\* The cells of an array in row-major order.
Flatten(a) ==
    AsTuple([k \in 1..(NRows(a) * NCols(a)) |->
        a[((k - 1) \div NCols(a)) + 1][((k - 1) % NCols(a)) + 1]])

\* numpy.min, numpy.max, numpy.nanmin, numpy.nanmax of an array; nanmin and
\* nanmax of an array of NaN alone are NaN (with a warning).
NpMin(a) == Fold("min", Flatten(a), 1, NRows(a) * NCols(a))

NpMax(a) == Fold("max", Flatten(a), 1, NRows(a) * NCols(a))

NpNanMin(a) == Fold("nanmin", Flatten(a), 1, NRows(a) * NCols(a))

NpNanMax(a) == Fold("nanmax", Flatten(a), 1, NRows(a) * NCols(a))

\* Python's None
None == <<>>

----------------------------------------------------------------------------
(* The convolution engine *)

\* numpy.linspace(start, stop, num)[k] for k in 0..num-1 (num >= 2)
Linspace(start, stop, num, k) ==
    Add(start, Mul(Q(k, num - 1), Sub(stop, start)))

\* UniformForc._sg_kernel.  The design matrix has the columns
\* [1, x, x^2, y, y^2, x*y] over the (2sf+1)x(2sf+1) mesh, which is symmetric
\* about 0 in x and in y.  For sf >= 1 and step # 0 it has full column rank, so
\* its pseudo-inverse is (A^T A)^-1 A^T; the x*y column is orthogonal to the
\* other five on the symmetric mesh, so row 5 of the pseudo-inverse is the x*y
\* column divided by its squared norm.
SgKernelBadScale(sf, step_x, step_y) ==
    LET K == 2 * sf + 1
        xx(c) == Linspace(Mul(I(sf), step_x), Mul(I(-sf), step_x), K, c - 1)
        yy(r) == Linspace(Mul(I(sf), step_y), Mul(I(-sf), step_y), K, r - 1)
    IN  AsTuple([r \in 1..K |-> AsTuple([c \in 1..K |-> Mul(xx(c), yy(r))])])

_sg_kernel(sf, step_x, step_y) ==
    LET K == 2 * sf + 1
        xx(c) == Linspace(Mul(I(sf), step_x), Mul(I(-sf), step_x), K, c - 1)
        yy(r) == Linspace(Mul(I(sf), step_y), Mul(I(-sf), step_y), K, r - 1)
        xy(r, c) == Mul(xx(c), yy(r))
        norm2 == SumSeq([k \in 1..(K * K) |->
                    LET r == ((k - 1) \div K) + 1
                        c == ((k - 1) % K) + 1
                    IN  Mul(xy(r, c), xy(r, c))])
    IN  AsTuple([r \in 1..K |-> AsTuple([c \in 1..K |-> Div(xy(r, c), norm2)])])

\* util.fast_symmetric_convolve: the result starts as all NaN; every cell with a
\* full margin gets the sum of input[i+m, j+n]*kernel[m+sf_y, n+sf_x].
\* (Indices are 1-based here, 0-based in the source.)
ConvolveSkipNaN(input, kernel) ==
    LET sf_y == (Len(kernel) - 1) \div 2
        sf_x == (Len(kernel[1]) - 1) \div 2
        Ky == 2 * sf_y + 1
        Kx == 2 * sf_x + 1
        term(i, j, k) ==
            LET m == ((k - 1) \div Kx) - sf_y
                n == ((k - 1) % Kx) - sf_x
            IN  IF IsNaN(input[i + m][j + n]) THEN I(0)
                ELSE Mul(input[i + m][j + n], kernel[m + sf_y + 1][n + sf_x + 1])
    IN  [i \in 1..NRows(input) |-> [j \in 1..NCols(input) |->
            IF /\ i \in (sf_y + 1)..(NRows(input) - sf_y)
               /\ j \in (sf_x + 1)..(NCols(input) - sf_x)
            THEN SumSeq([k \in 1..(Ky * Kx) |-> term(i, j, k)])
            ELSE NaN]]

fast_symmetric_convolve(input, kernel) ==
    LET sf_y == (Len(kernel) - 1) \div 2
        sf_x == (Len(kernel[1]) - 1) \div 2
        Ky == 2 * sf_y + 1
        Kx == 2 * sf_x + 1
        term(i, j, k) ==
            LET m == ((k - 1) \div Kx) - sf_y
                n == ((k - 1) % Kx) - sf_x
            IN  Mul(input[i + m][j + n], kernel[m + sf_y + 1][n + sf_x + 1])
    IN  [i \in 1..NRows(input) |-> [j \in 1..NCols(input) |->
            IF /\ i \in (sf_y + 1)..(NRows(input) - sf_y)
               /\ j \in (sf_x + 1)..(NCols(input) - sf_x)
            THEN SumSeq([k \in 1..(Ky * Kx) |-> term(i, j, k)])
            ELSE NaN]]

\* UniformForc._compute_forc_sg: -0.5 * convolve(m, kernel)
_compute_forc_sg(m, sf, step_x, step_y) ==
    LET kernel == _sg_kernel(sf, step_x, step_y)
        conv == fast_symmetric_convolve(m, kernel)
    IN  [i \in 1..NRows(m) |-> [j \in 1..NCols(m) |-> Mul(Q(-1, 2), conv[i][j])]]

----------------------------------------------------------------------------
(* The convolution engine on its own: _compute_forc_sg applied to one array *)

MaxSf == 2

MaxDim == 5

SgSteps == {I(1), I(2), Q(1, 2)}

SgOrigins == {<<0, 0>>, <<-2, 1>>}

\* The sample surfaces: the quadratic m(x,y) = x^2 + y^2 + x*y, and a cubic
\* whose mixed derivative is not constant.
SurfaceValue(kind, x, y) ==
    IF kind = "quad"
    THEN Add(Add(Mul(x, x), Mul(y, y)), Mul(x, y))
    ELSE Mul(Mul(x, x), y)

\* The surface sampled on the uniform grid with origin o and spacing step:
\* x runs along the columns, y along the rows.
Surface(kind, o, step, R, C) ==
    [i \in 1..R |-> [j \in 1..C |->
        SurfaceValue(kind, Add(I(o[1]), Mul(I(j - 1), step)),
                           Add(I(o[2]), Mul(I(i - 1), step)))]]

\* The array a with the cell (p, q) set to missing.
WithHole(a, p, q) ==
    [i \in 1..NRows(a) |-> [j \in 1..NCols(a) |->
        IF i = p /\ j = q THEN NaN ELSE a[i][j]]]

\* The values the variables of a part hold while another part runs.
NoCall == [op |-> "none", recv |-> 0, args |-> None, exc |-> "", ret |-> 0, before |-> None]

NoQuery == [op |-> "none", recv |-> 0, args |-> None, exc |-> "", ret |-> None]

SgIdle == sg_m = <<>> /\ sg_sf = 0 /\ sg_step = NaN /\ sg_rho = <<>> /\ sg_pc = "idle"

DsIdle ==
    /\ ds = <<>> /\ call = NoCall /\ ncalls = 0 /\ nextId = 0 /\ imported = None
    /\ query = NoQuery

ParseIdle ==
    /\ lines = <<>> /\ p_i = 0 /\ p_mode = FALSE /\ p_pc = "idle" /\ p_exc = ""
    /\ p_starts = <<>> /\ p_opts = None

ImpIdle == imp = None

DriftIdle == dc_args = None /\ dc_pc = "idle" /\ dc_exc = "" /\ dc_before = None

FlatIdle == fl_m = <<>> /\ fl_i = 0 /\ fl_pc = "idle" /\ fl_before = <<>>

SgInit ==
    /\ sg_sf \in 1..MaxSf
    /\ sg_step \in SgSteps
    /\ \E R \in 3..MaxDim, C \in 3..MaxDim :
         \/ \E kind \in {"quad", "cubic"}, o \in SgOrigins :
              sg_m = Surface(kind, o, sg_step, R, C)
         \/ \E p \in 1..R, q \in 1..C :
              sg_m = WithHole(Surface("quad", <<0, 0>>, sg_step, R, C), p, q)
    /\ sg_rho = <<>>
    /\ sg_pc = "init"
    /\ DsIdle /\ ParseIdle /\ ImpIdle /\ DriftIdle /\ FlatIdle

ComputeForcSg ==
    /\ sg_pc = "init"
    /\ sg_rho' = _compute_forc_sg(sg_m, sg_sf, sg_step, sg_step)
    /\ sg_pc' = "done"
    /\ UNCHANGED <<sg_m, sg_sf, sg_step>>
    /\ UNCHANGED <<dsVars, parseVars, driftVars, flatVars>>

SgNext == ComputeForcSg

SpecSg == SgInit /\ [][SgNext]_vars

\* The cells with a full sf-margin on every side.
Interior(a, sf) ==
    {c \in (1..NRows(a)) \X (1..NCols(a)) :
        /\ c[1] \in (sf + 1)..(NRows(a) - sf)
        /\ c[2] \in (sf + 1)..(NCols(a) - sf)}

\* The (2sf+1)x(2sf+1) neighbourhood of an interior cell.
Neighbourhood(c, sf) == ((c[1] - sf)..(c[1] + sf)) \X ((c[2] - sf)..(c[2] + sf))

IsQuadSurface(a, step) ==
    \E o \in SgOrigins : a = Surface("quad", o, step, NRows(a), NCols(a))

\* C4: in the convolution, an interior output cell whose neighbourhood holds a
\* missing input cell is missing, whatever the kernel weight at that position.
C4_MissingPropagates ==
    sg_pc = "done" =>
        \A c \in Interior(sg_m, sg_sf) :
            (\E n \in Neighbourhood(c, sg_sf) : IsNaN(sg_m[n[1]][n[2]]))
                => IsNaN(sg_rho[c[1]][c[2]])

\* A missing cell in the centre of the window, where the kernel weight is 0,
\* makes the output cell missing.
C4_Witness ==
    /\ sg_pc = "done"
    /\ \E c \in Interior(sg_m, sg_sf) :
         /\ IsNaN(sg_m[c[1]][c[2]])
         /\ _sg_kernel(sg_sf, sg_step, sg_step)[sg_sf + 1][sg_sf + 1] = I(0)
         /\ \A n \in Neighbourhood(c, sg_sf) \ {c} : ~IsNaN(sg_m[n[1]][n[2]])
         /\ IsNaN(sg_rho[c[1]][c[2]])

\* C5 (as amended): on the surface x^2 + y^2 + x*y sampled on a uniform grid,
\* _compute_forc_sg yields -1/2 at every interior cell, for every sf >= 1:
\* -0.5 times the mixed derivative 1.
C5_QuadraticGivesMinusHalf ==
    (sg_pc = "done" /\ IsQuadSurface(sg_m, sg_step)) =>
        \A c \in Interior(sg_m, sg_sf) : sg_rho[c[1]][c[2]] = Q(-1, 2)

C5_Witness ==
    /\ sg_pc = "done"
    /\ IsQuadSurface(sg_m, sg_step)
    /\ sg_sf = 2
    /\ sg_step = I(2)
    /\ Interior(sg_m, sg_sf) # {}
    /\ \A c \in Interior(sg_m, sg_sf) : sg_rho[c[1]][c[2]] = Q(-1, 2)

\* C5 as claimed: on that surface _compute_forc_sg yields 1 at every interior
\* cell.
C5_QuadraticGivesOne ==
    (sg_pc = "done" /\ IsQuadSurface(sg_m, sg_step)) =>
        \A c \in Interior(sg_m, sg_sf) : sg_rho[c[1]][c[2]] = I(1)

----------------------------------------------------------------------------
(* util.py helpers used by the dataset *)

\* util.arg_first_not_nan on a row, 1-based; 0 stands for the ValueError it
\* raises when the row holds NaN alone.
arg_first_not_nan(arr) ==
    LET i == {k \in 1..Len(arr) : ~IsNaN(arr[k])}
    IN  IF i = {} THEN 0 ELSE CHOOSE k \in i : \A l \in i : k <= l

\* util.fliplr
fliplr(arr) == [k \in 1..Len(arr) |-> arr[Len(arr) + 1 - k]]

\* util.arg_last_non_nan, 1-based (the row is known to hold a number).
arg_last_non_nan(arr) == Len(arr) + 1 - arg_first_not_nan(fliplr(arr))

\* scipy.optimize.curve_fit(util.line, xs, ys): the least-squares line a*x + b
\* (the solution of the normal equations, to which the fit converges).
\* It raises ValueError when the data hold a NaN, and TypeError when there are
\* fewer points than the two parameters.  A fit through points of one x alone
\* has no slope: NaN stands for it.
LineFit(xs, ys) ==
    IF \E k \in 1..Len(xs) : IsNaN(xs[k]) \/ IsNaN(ys[k])
    THEN [exc |-> "ValueError", a |-> NaN, b |-> NaN]
    ELSE IF Len(xs) < 2 THEN [exc |-> "TypeError", a |-> NaN, b |-> NaN]
    ELSE The({ The({ [exc |-> "",
                      a |-> Div(Sub(Mul(s.n, s.xy), Mul(s.x, s.y)), det),
                      b |-> Div(Sub(Mul(s.xx, s.y), Mul(s.x, s.xy)), det)] :
                     det \in {Sub(Mul(s.n, s.xx), Mul(s.x, s.x))} }) :
               s \in {[n |-> I(Len(xs)),
                       x |-> SumSeq(xs),
                       y |-> SumSeq(ys),
                       xy |-> SumSeq([k \in 1..Len(xs) |-> Mul(xs[k], ys[k])]),
                       xx |-> SumSeq([k \in 1..Len(xs) |-> Mul(xs[k], xs[k])])]} })

\* util.line
line(x, a, b) == Add(Mul(a, x), b)

\* Python's seq[lo:hi] on 0-based bounds lo <= hi, the end clipped to the length.
Slice(seq, lo, hi) ==
    SubSeq(seq, lo + 1, IF hi > Len(seq) THEN Len(seq) ELSE hi)

\* One iteration of the loop of util.extend_flat / UniformForc._extend_flat on
\* row i (which holds a number): m[i, 0:first] = m[i, first].
ExtendFlatRowKeepFirst(m, i) ==
    LET first == arg_first_not_nan(m[i])
    IN  [m EXCEPT ![i] = [j \in 1..Len(m[i]) |->
            IF j < first - 1 THEN m[i][first] ELSE m[i][j]]]

ExtendFlatRow(m, i) ==
    LET first == arg_first_not_nan(m[i])
    IN  [m EXCEPT ![i] = AsTuple([j \in 1..Len(m[i]) |->
            IF j < first THEN m[i][first] ELSE m[i][j]])]

\* The rows i.. of the loop: it stops with ValueError at the first row of NaN
\* alone, leaving the rows before it filled.
RECURSIVE ExtendFlatFrom(_, _)
ExtendFlatFrom(m, i) ==
    IF i > NRows(m) THEN [exc |-> "", m |-> m]
    ELSE IF arg_first_not_nan(m[i]) = 0 THEN [exc |-> "ValueError", m |-> m]
    ELSE ExtendFlatFrom(ExtendFlatRow(m, i), i + 1)

\* UniformForc._extend_flat (and util.extend_flat): fills m in place.
_extend_flat(h, m) == ExtendFlatFrom(m, 1)

\* UniformForc._extend_slope, rows i..: fits a line through the first
\* n_fit_points samples from the first number of the row on and evaluates it on
\* the columns before it.
RECURSIVE ExtendSlopeFrom(_, _, _, _)
ExtendSlopeFrom(h, m, n_fit_points, i) ==
    IF i > NRows(m) THEN [exc |-> "", m |-> m]
    ELSE IF arg_first_not_nan(m[i]) = 0 THEN [exc |-> "ValueError", m |-> m]
    ELSE The({ The({ IF fit.exc # "" THEN [exc |-> fit.exc, m |-> m]
                     ELSE ExtendSlopeFrom(h,
                              [m EXCEPT ![i] = AsTuple([c \in 1..Len(m[i]) |->
                                  IF c <= j THEN line(h[i][c], fit.a, fit.b)
                                  ELSE m[i][c]])],
                              n_fit_points, i + 1) :
                     fit \in {LineFit(Slice(h[i], j, j + n_fit_points),
                                      Slice(m[i], j, j + n_fit_points))} }) :
               j \in {arg_first_not_nan(m[i]) - 1} })

_extend_slope(h, m, n_fit_points) == ExtendSlopeFrom(h, m, n_fit_points, 1)

----------------------------------------------------------------------------
(* The UniformForc dataset *)

\* UniformForc._determine_step: the mean over the rows of the mean difference
\* of adjacent field values.
_determine_step(h) ==
    LET rowmean(i) ==
            Div(SumSeq([j \in 1..(Len(h[i]) - 1) |-> Sub(h[i][j + 1], h[i][j])]),
                I(Len(h[i]) - 1))
    IN  Div(SumSeq([i \in 1..NRows(h) |-> rowmean(i)]), I(NRows(h)))

\* UniformForc._update_data_range: the cached limits, from the arrays held now.
_update_data_range(self) ==
    LET noT == self.temperature = None \/ IsNaN(NpNanMin(self.temperature))
    IN  [self EXCEPT
            !._h_min = NpMin(self.h),
            !._h_max = NpMax(self.h),
            !._hr_min = NpMin(self.hr),
            !._hr_max = NpMax(self.hr),
            !._m_min = NpNanMin(self.m),
            !._m_max = NpNanMax(self.m),
            !._temperature_min = IF noT THEN NaN ELSE NpNanMin(self.temperature),
            !._temperature_max = IF noT THEN NaN ELSE NpNanMax(self.temperature)]

\* UniformForc.__init__ with h, hr and m given (and _from_input_arrays): the
\* object keeps the very arrays it is given (id names each array object), takes
\* its step from h and caches the ranges.
UniformForc(h, hr, m, T, rho, id) ==
    _update_data_range(
        [h |-> h, hr |-> hr, m |-> m, temperature |-> T, rho |-> rho,
         step |-> _determine_step(h), id |-> id,
         _h_min |-> NaN, _h_max |-> NaN, _hr_min |-> NaN, _hr_max |-> NaN,
         _m_min |-> NaN, _m_max |-> NaN,
         _temperature_min |-> NaN, _temperature_max |-> NaN])

\* The smoothing factor compute_forc_distribution hands to _extend_dataset and
\* to _compute_forc_sg, whatever sf its caller passed.
ExtendSf == 3

ComputeSf == 3

\* numpy.concatenate((a, b), axis=1)
ConcatCols(a, b) == AsTuple([i \in 1..NRows(a) |-> a[i] \o b[i]])

\* UniformForc._extend_dataset: the object after the call, the exception raised
\* ("" for none) and the next free array identity.  The arrays h, hr and m are
\* replaced before the fill runs, the temperature after it.
_extend_dataset(self, sf, method, n_fit_points, nid) ==
    IF method = "truncate" THEN [self |-> self, exc |-> "", nid |-> nid]
    ELSE LET K == 2 * sf + 1
             R == NRows(self.hr)
             Extended(ext) ==
                 The({ The({ IF fill.exc # ""
                             THEN [self |-> s1, exc |-> fill.exc, nid |-> nid + 3]
                             ELSE IF self.temperature = None
                             THEN [self |-> s1, exc |-> "", nid |-> nid + 3]
                             ELSE [self |-> [s1 EXCEPT
                                       !.temperature = ConcatCols(ext.nans, self.temperature),
                                       !.id = [@ EXCEPT !.temperature = nid + 3]],
                                   exc |-> "", nid |-> nid + 4] :
                             s1 \in {[self EXCEPT
                                        !.h = ext.h, !.hr = ext.hr, !.m = fill.m,
                                        !.id = [@ EXCEPT !.h = nid, !.hr = nid + 1,
                                                         !.m = nid + 2]]} }) :
                       fill \in {IF method = "flat" THEN _extend_flat(ext.h, ext.m)
                                 ELSE IF method = "slope"
                                 THEN _extend_slope(ext.h, ext.m, n_fit_points)
                                 ELSE [exc |-> "NotImplementedError", m |-> ext.m]} })
         IN  The({ The({ Extended([nans |-> nans,
                                   h |-> ConcatCols(
                                       AsTuple([i \in 1..R |-> AsTuple([k \in 1..K |->
                                           Linspace(lo, self._h_min, K, k - 1)])]),
                                       self.h),
                                   hr |-> ConcatCols(
                                       AsTuple([i \in 1..R |-> AsTuple([k \in 1..K |->
                                           self.hr[i][1]])]),
                                       self.hr),
                                   m |-> ConcatCols(nans, self.m)]) :
                         nans \in {AsTuple([i \in 1..R |->
                                               AsTuple([k \in 1..K |-> NaN])])} }) :
                   lo \in {Sub(self._h_min, Mul(I(K), self.step))} })

\* UniformForc.compute_forc_distribution: the receiver after the call, the
\* exception raised, the object returned (None when it raises) and the next free
\* array identity.
compute_forc_distribution(self, sf, method, extension, n_fit_points, nid) ==
    The({ IF e.exc # ""
          THEN [self |-> e.self, exc |-> e.exc, ret |-> None, nid |-> e.nid]
          ELSE IF method # "savitzky-golay"
          THEN [self |-> e.self, exc |-> "NotImplementedError", ret |-> None,
                nid |-> e.nid]
          ELSE [self |-> e.self, exc |-> "",
                ret |-> UniformForc(e.self.h, e.self.hr, e.self.m, e.self.temperature,
                            _compute_forc_sg(e.self.m, ComputeSf, e.self.step,
                                             e.self.step),
                            [e.self.id EXCEPT !.rho = e.nid]),
                nid |-> e.nid + 1] :
          e \in {IF self.rho = None
                 THEN _extend_dataset(self, ExtendSf, extension, n_fit_points, nid)
                 ELSE [self |-> self, exc |-> "", nid |-> nid]} })

\* The coefficient slope_correction subtracts: the value given, or the slope of
\* a fitted line.
SlopeValue(self, h_sat, value) ==
    IF value # None THEN [exc |-> "", a |-> value]
    ELSE IF h_sat = None
    THEN LET R == NRows(self.h)
             first_non_nan == arg_first_not_nan(self.m[R]) - 1
             last_non_nan == arg_last_non_nan(self.m[R]) - 1
         IN  IF arg_first_not_nan(self.m[R]) = 0 THEN [exc |-> "ValueError", a |-> NaN]
             ELSE LineFit(Slice(self.h[R], first_non_nan, last_non_nan),
                          Slice(self.m[R], first_non_nan, last_non_nan))
    ELSE LET C == NCols(self.h)
             gt == {j \in 1..C : Less(h_sat, self.h[1][j])}
             index_h_sat == CHOOSE j \in gt : \A l \in gt : j <= l
             col(j) == [i \in 1..NRows(self.m) |-> self.m[i][j]]
             nansum(j) == SumSeq([i \in 1..NRows(self.m) |->
                              IF IsNaN(self.m[i][j]) THEN I(0) ELSE self.m[i][j]])
             count(j) == Cardinality({i \in 1..NRows(self.m) : ~IsNaN(self.m[i][j])})
         IN  IF gt = {} THEN [exc |-> "IndexError", a |-> NaN]
             ELSE LineFit(SubSeq(self.h[1], index_h_sat, C),
                          [k \in 1..(C - index_h_sat + 1) |->
                              Div(nansum(index_h_sat + k - 1), I(count(index_h_sat + k - 1)))])

\* a - value*b, cell by cell
MinusScaled(a, value, b) ==
    AsTuple([i \in 1..NRows(a) |-> AsTuple([j \in 1..NCols(a) |->
        Sub(a[i][j], Mul(value, b[i][j]))])])

\* UniformForc.slope_correction
slope_correction(self, h_sat, value, nid) ==
    The({ IF v.exc # "" THEN [self |-> self, exc |-> v.exc, ret |-> None, nid |-> nid]
          ELSE [self |-> self, exc |-> "",
                ret |-> UniformForc(self.h, self.hr, MinusScaled(self.m, v.a, self.h),
                                    self.temperature, self.rho,
                                    [self.id EXCEPT !.m = nid]),
                nid |-> nid + 1] :
          v \in {SlopeValue(self, h_sat, value)} })

\* A normalize that rescales to the range [0, 1].
NormalizeZeroOne(self, method, nid) ==
    IF method # "minmax"
    THEN [self |-> self, exc |-> "NotImplementedError", ret |-> None, nid |-> nid]
    ELSE The({ [self |-> self, exc |-> "",
                ret |-> UniformForc(self.h, self.hr,
                            AsTuple([i \in 1..NRows(self.m) |->
                                AsTuple([j \in 1..NCols(self.m) |->
                                    Div(Sub(self.m[i][j], r.mn), Sub(r.mx, r.mn))])]),
                            self.temperature, self.rho, [self.id EXCEPT !.m = nid]),
                nid |-> nid + 1] :
               r \in {[mx |-> NpNanMax(self.m), mn |-> NpNanMin(self.m)]} })

\* UniformForc.normalize
normalize(self, method, nid) ==
    IF method # "minmax"
    THEN [self |-> self, exc |-> "NotImplementedError", ret |-> None, nid |-> nid]
    ELSE The({ [self |-> self, exc |-> "",
                ret |-> UniformForc(self.h, self.hr,
                            AsTuple([i \in 1..NRows(self.m) |->
                                AsTuple([j \in 1..NCols(self.m) |->
                                    Sub(I(1), Div(Mul(I(2), Sub(r.mx, self.m[i][j])),
                                                  Sub(r.mx, r.mn)))])]),
                            self.temperature, self.rho, [self.id EXCEPT !.m = nid]),
                nid |-> nid + 1] :
               r \in {[mx |-> NpNanMax(self.m), mn |-> NpNanMin(self.m)]} })

----------------------------------------------------------------------------
(* The datasets a program builds and the calls it makes on them *)

MaxCalls == 2

\* A dataset as the importer leaves it (PMCImporter._interpolate): h and hr on
\* a uniform mesh, m missing where h < hr, the temperature (when the file has
\* one) interpolated everywhere, no rho yet.
GridH(g) == AsTuple([i \in 1..g.R |-> AsTuple([j \in 1..g.C |->
                Add(I(g.h0), Mul(I(j - 1), I(g.step)))])])

GridHr(g) == AsTuple([i \in 1..g.R |-> AsTuple([j \in 1..g.C |->
                Add(I(g.hr0), Mul(I(i - 1), I(g.step)))])])

\* The mesh with zero, not missing, where h < hr.
GridMZeroFilled(g) ==
    LET h == GridH(g)
        hr == GridHr(g)
    IN  AsTuple([i \in 1..g.R |-> AsTuple([j \in 1..g.C |->
            IF Less(h[i][j], hr[i][j]) THEN I(0)
            ELSE IF g.kind = "sum" THEN I(i + j) ELSE I(i * j)])])

GridM(g) ==
    LET h == GridH(g)
        hr == GridHr(g)
    IN  AsTuple([i \in 1..g.R |-> AsTuple([j \in 1..g.C |->
            IF Less(h[i][j], hr[i][j]) THEN NaN
            ELSE IF g.kind = "sum" THEN I(i + j) ELSE I(i * j)])])

GridT(g) == AsTuple([i \in 1..g.R |-> AsTuple([j \in 1..g.C |-> I(300 + i + j)])])

ImportedForc(g) ==
    UniformForc(GridH(g), GridHr(g), GridM(g), IF g.T THEN GridT(g) ELSE None, None,
                [h |-> 1, hr |-> 2, m |-> 3, temperature |-> IF g.T THEN 4 ELSE 0,
                 rho |-> 0])

\* The meshes tried: the last one but one has a row without any measured cell,
\* the last has seven rows and no missing cell.  The steps are multiples of 6,
\* which keeps the seven padding columns of _extend_dataset at whole numbers;
\* the moments are small whole numbers (row + column, or row * column).
InitialGrids ==
    { [h0 |-> 0, hr0 |-> 0, step |-> 12, R |-> 3, C |-> 3, T |-> TRUE, kind |-> "product"],
      [h0 |-> 0, hr0 |-> 6, step |-> 12, R |-> 2, C |-> 2, T |-> TRUE, kind |-> "sum"],
      [h0 |-> 0, hr0 |-> -36, step |-> 6, R |-> 7, C |-> 2, T |-> FALSE, kind |-> "product"] }

\* The arguments tried for compute_forc_distribution, slope_correction and
\* normalize.  "leave" is an extension policy the code does not know.
CfdArgs ==
    {[sf |-> 3, method |-> "savitzky-golay", extension |-> e, n_fit_points |-> 2] :
        e \in {"truncate", "flat", "slope", "leave"}}
    \cup {[sf |-> 1, method |-> "savitzky-golay", extension |-> "flat", n_fit_points |-> 2],
          [sf |-> 3, method |-> "spline", extension |-> "flat", n_fit_points |-> 2]}

SlopeArgs ==
    {[h_sat |-> None, value |-> None], [h_sat |-> None, value |-> I(2)],
     [h_sat |-> I(0), value |-> None], [h_sat |-> I(9), value |-> None]}

NormalizeArgs == {"minmax", "zscore"}

Init ==
    /\ \E g \in InitialGrids : ds = <<ImportedForc(g)>>
    /\ imported = ds[1]
    /\ call = NoCall
    /\ ncalls = 0
    /\ nextId = 5
    /\ query = NoQuery
    /\ SgIdle /\ ParseIdle /\ ImpIdle /\ DriftIdle /\ FlatIdle

\* The effect of a call on object r with outcome res: the receiver is left as
\* the call left it, the returned object (if any) is a new object.
Called(op, r, args, res) ==
    /\ ds' = IF res.exc = "" THEN Append([ds EXCEPT ![r] = res.self], res.ret)
             ELSE [ds EXCEPT ![r] = res.self]
    /\ call' = [op |-> op, recv |-> r, args |-> args, exc |-> res.exc,
                ret |-> IF res.exc = "" THEN Len(ds) + 1 ELSE 0, before |-> ds[r]]
    /\ ncalls' = ncalls + 1
    /\ nextId' = res.nid
    /\ UNCHANGED <<imported, query, sgVars, parseVars, driftVars, flatVars>>

ComputeForcDistribution ==
    /\ ncalls < MaxCalls
    /\ \E r \in 1..Len(ds), a \in CfdArgs :
         Called("compute_forc_distribution", r, a,
                compute_forc_distribution(ds[r], a.sf, a.method, a.extension,
                                          a.n_fit_points, nextId))

SlopeCorrection ==
    /\ ncalls < MaxCalls
    /\ \E r \in 1..Len(ds), a \in SlopeArgs :
         Called("slope_correction", r, a, slope_correction(ds[r], a.h_sat, a.value, nextId))

Normalize ==
    /\ ncalls < MaxCalls
    /\ \E r \in 1..Len(ds), a \in NormalizeArgs :
         Called("normalize", r, a, normalize(ds[r], a, nextId))

Next == ComputeForcDistribution \/ SlopeCorrection \/ Normalize

Spec == Init /\ [][Next]_vars

----------------------------------------------------------------------------
(* Constructing a dataset and querying it *)

\* An argument of a call: None, a numpy array (with the identity of the array
\* object) or an object of another type (a list).
NoneArg == [kind |-> "None", v |-> None, id |-> 0]

NdArray(a, id) == [kind |-> "ndarray", v |-> a, id |-> id]

ListArg(a) == [kind |-> "list", v |-> a, id |-> 0]

\* A path argument: the file it names imports to the mesh g.
PathArg(g) == [kind |-> "str", g |-> g]

NoPath == [kind |-> "None", g |-> None]

\* UniformForc.__init__ (with _from_input_arrays): from h, hr and m when all
\* three are given, else from the path when there is one, else IOError.  The
\* constructor reads the file only in the second case.
UniformForcInit(path, h, hr, m, T, rho) ==
    IF h.kind # "None" /\ hr.kind # "None" /\ m.kind # "None"
    THEN IF ~(h.kind = "ndarray" /\ hr.kind = "ndarray" /\ m.kind = "ndarray")
         THEN [exc |-> "IOError", self |-> None, from |-> "arrays"]
         ELSE IF T.kind \notin {"ndarray", "None"}
         THEN [exc |-> "IOError", self |-> None, from |-> "arrays"]
         ELSE IF rho.kind \notin {"ndarray", "None"}
         THEN [exc |-> "IOError", self |-> None, from |-> "arrays"]
         ELSE [exc |-> "", from |-> "arrays",
               self |-> UniformForc(h.v, hr.v, m.v, T.v, rho.v,
                            [h |-> h.id, hr |-> hr.id, m |-> m.id,
                             temperature |-> T.id, rho |-> rho.id])]
    ELSE IF path.kind # "None"
    THEN [exc |-> "", from |-> "path", self |-> ImportedForc(path.g)]
    ELSE [exc |-> "IOError", self |-> None, from |-> "nothing"]

\* str.lower on the names tried
Lower(t) ==
    CASE t = "H<HR" -> "h<hr"
      [] t = "M" -> "m"
      [] t = "Rho" -> "rho"
      [] t = "RHO_UNCERTAINTY" -> "rho_uncertainty"
      [] t = "Temperature" -> "temperature"
      [] OTHER -> t

\* The mask argument is the text of a Python literal: True, False or a string.
\* A get_masked that writes into the array it is given.
GetMaskedInPlace(self, data, mask, nid) ==
    IF mask = "False" THEN [exc |-> "AttributeError", ret |-> NoneArg, data |-> data]
    ELSE IF mask = "True" \/ Lower(mask) = "h<hr"
    THEN IF Shape(data.v) # Shape(self.h)
         THEN [exc |-> "IndexError", ret |-> NoneArg, data |-> data]
         ELSE The({ [exc |-> "", ret |-> NdArray(masked, data.id),
                     data |-> NdArray(masked, data.id)] :
                    masked \in {AsTuple([i \in 1..NRows(data.v) |->
                                   AsTuple([j \in 1..NCols(data.v) |->
                                       IF Less(self.h[i][j],
                                               Sub(self.hr[i][j], Mul(Q(1, 2), self.step)))
                                       THEN NaN ELSE data.v[i][j]])])} })
    ELSE [exc |-> "", ret |-> data, data |-> data]

\* UniformForc.get_masked(data, mask), nid the identity of the copy: the
\* exception, the array returned and the array passed as the call leaves it.
\* With a mask it returns a copy of data with NaN where h < hr - 0.5*step,
\* else data itself; False has no lower().
get_masked(self, data, mask, nid) ==
    IF mask = "False" THEN [exc |-> "AttributeError", ret |-> NoneArg, data |-> data]
    ELSE IF mask = "True" \/ Lower(mask) = "h<hr"
    THEN IF Shape(data.v) # Shape(self.h)
         THEN [exc |-> "IndexError", ret |-> NoneArg, data |-> data]
         ELSE [exc |-> "", data |-> data,
               ret |-> NdArray(AsTuple([i \in 1..NRows(data.v) |->
                                  AsTuple([j \in 1..NCols(data.v) |->
                                      IF Less(self.h[i][j],
                                              Sub(self.hr[i][j], Mul(Q(1, 2), self.step)))
                                      THEN NaN ELSE data.v[i][j]])]), nid)]
    ELSE [exc |-> "", ret |-> data, data |-> data]

\* An attribute value as an argument or result: None or an array.
AsArg(a, id) == IF a = None THEN NoneArg ELSE NdArray(a, id)

\* UniformForc.get_data(data_str): getattr(self, data_str.lower()) for the four
\* names of the list, ValueError for any other.  The attributes of an object
\* are the fields of its record; getattr of a missing one is AttributeError.
get_data(self, data_str) ==
    IF Lower(data_str) \in {"m", "rho", "rho_uncertainty", "temperature"}
    THEN IF Lower(data_str) \in DOMAIN self
         THEN [exc |-> "", ret |-> AsArg(self[Lower(data_str)], self.id[Lower(data_str)])]
         ELSE [exc |-> "AttributeError", ret |-> NoneArg]
    ELSE [exc |-> "ValueError", ret |-> NoneArg]

\* np.any(1 - np.isnan(a)): some cell of a holds a number
AnyNumber(a) == \E i \in 1..NRows(a), j \in 1..NCols(a) : ~IsNaN(a[i][j])

\* UniformForc.has_m, has_rho, has_rho_uncertainty, has_temperature: each of
\* the four evaluates np.any(1 - np.isnan(self.m)).
has_m(self) == AnyNumber(self.m)

has_rho(self) == AnyNumber(self.m)

has_rho_uncertainty(self) == AnyNumber(self.m)

has_temperature(self) == AnyNumber(self.m)

\* The constructor calls tried: with and without a path; with h, hr and m all
\* given, with m left out, with none of them; the temperature an array (when
\* the mesh has one), None or a list.
ConstructArgs ==
    { [path |-> IF pkind = "None" THEN NoPath ELSE PathArg(g),
       h |-> IF given = "none" THEN NoneArg ELSE NdArray(GridH(g), 1),
       hr |-> IF given = "none" THEN NoneArg ELSE NdArray(GridHr(g), 2),
       m |-> IF given = "all" THEN NdArray(GridM(g), 3) ELSE NoneArg,
       T |-> IF given = "none" \/ tkind = "None" THEN NoneArg
             ELSE IF tkind = "list" THEN ListArg(GridT(g))
             ELSE NdArray(GridT(g), 4),
       rho |-> NoneArg] :
      g \in InitialGrids, pkind \in {"None", "str"},
      given \in {"all", "no m", "none"}, tkind \in {"ndarray", "None", "list"} }

MaskArgs == {"True", "False", "h<hr", "H<HR", "hc>0"}

DataNames ==
    {"m", "M", "rho", "Rho", "rho_uncertainty", "RHO_UNCERTAINTY", "temperature",
     "Temperature", "h", "moment"}

\* The arrays passed to get_masked: the object's own arrays.
DataArrays(d) ==
    {NdArray(d.m, d.id.m), NdArray(d.h, d.id.h)}
    \cup (IF d.temperature = None THEN {} ELSE {NdArray(d.temperature, d.id.temperature)})
    \cup (IF d.rho = None THEN {} ELSE {NdArray(d.rho, d.id.rho)})

QueryInit ==
    /\ ds = <<>>
    /\ imported = None
    /\ call = NoCall
    /\ ncalls = 0
    /\ nextId = 6
    /\ query = NoQuery
    /\ SgIdle /\ ParseIdle /\ ImpIdle /\ DriftIdle /\ FlatIdle

\* UniformForc(path=..., h=..., hr=..., m=..., T=..., rho=...)
Construct ==
    /\ ds = <<>> /\ query = NoQuery
    /\ \E a \in ConstructArgs :
         \E res \in {UniformForcInit(a.path, a.h, a.hr, a.m, a.T, a.rho)} :
            /\ ds' = IF res.exc = "" THEN <<res.self>> ELSE ds
            /\ imported' = IF res.exc = "" THEN res.self ELSE imported
            /\ query' = [op |-> "__init__", recv |-> 0, args |-> a, exc |-> res.exc,
                         ret |-> [from |-> res.from]]
    /\ UNCHANGED <<call, ncalls, nextId, sgVars, parseVars, driftVars, flatVars>>

\* The first transform call on the constructed object
FirstComputeForcDistribution ==
    ncalls = 0 /\ query.op = "__init__" /\ ComputeForcDistribution

\* No query has been made yet.  The queries leave the objects as they are, so
\* a behaviour makes one query, after the construction and the transform.
NotAsked == query.op = "__init__"

\* An array of an object after an in-place write to the array object id
Written(a, aid, data) == IF aid # 0 /\ aid = data.id THEN data.v ELSE a

\* d.get_masked(data, mask) on an object d
GetMasked ==
    /\ NotAsked
    /\ \E k \in 1..Len(ds), mask \in MaskArgs :
      \E data \in DataArrays(ds[k]) :
        \E res \in {get_masked(ds[k], data, mask, nextId)} :
          /\ query' = [op |-> "get_masked", recv |-> k, self |-> ds[k],
                       args |-> [data |-> data, mask |-> mask], exc |-> res.exc,
                       ret |-> [ret |-> res.ret, data |-> res.data]]
          /\ ds' = [o \in 1..Len(ds) |->
                       [ds[o] EXCEPT
                          !.h = Written(@, ds[o].id.h, res.data),
                          !.hr = Written(@, ds[o].id.hr, res.data),
                          !.m = Written(@, ds[o].id.m, res.data),
                          !.temperature = Written(@, ds[o].id.temperature, res.data),
                          !.rho = Written(@, ds[o].id.rho, res.data)]]
          /\ nextId' = IF res.exc = "" /\ res.ret.id # data.id THEN nextId + 1 ELSE nextId
          /\ UNCHANGED <<call, ncalls, imported, sgVars, parseVars, driftVars, flatVars>>

\* d.get_data(data_str) on an object d
GetData ==
    /\ NotAsked
    /\ \E k \in 1..Len(ds), data_str \in DataNames :
      \E res \in {get_data(ds[k], data_str)} :
        /\ query' = [op |-> "get_data", recv |-> k, self |-> ds[k],
                     args |-> [data_str |-> data_str], exc |-> res.exc,
                     ret |-> [ret |-> res.ret]]
        /\ UNCHANGED <<ds, call, ncalls, nextId, imported>>
        /\ UNCHANGED <<sgVars, parseVars, driftVars, flatVars>>

PredicateNames == {"has_m", "has_rho", "has_rho_uncertainty", "has_temperature"}

\* d.has_m(), d.has_rho(), d.has_rho_uncertainty() or d.has_temperature()
HasField ==
    /\ NotAsked
    /\ \E k \in 1..Len(ds), name \in PredicateNames :
         /\ query' = [op |-> "has", recv |-> k, self |-> ds[k],
                      args |-> [name |-> name], exc |-> "",
                      ret |-> [ret |-> CASE name = "has_m" -> has_m(ds[k])
                                         [] name = "has_rho" -> has_rho(ds[k])
                                         [] name = "has_rho_uncertainty" ->
                                                has_rho_uncertainty(ds[k])
                                         [] name = "has_temperature" ->
                                                has_temperature(ds[k])]]
         /\ UNCHANGED <<ds, call, ncalls, nextId, imported>>
         /\ UNCHANGED <<sgVars, parseVars, driftVars, flatVars>>

QueryNext ==
    Construct \/ FirstComputeForcDistribution \/ GetMasked \/ GetData \/ HasField

SpecQuery == QueryInit /\ [][QueryNext]_vars

----------------------------------------------------------------------------
(* Claims about the dataset and its transforms *)

\* The arrays an object holds.
Arrays(d) == <<d.h, d.hr, d.m, d.temperature, d.rho>>

\* C1: after every transform call (slope_correction, normalize,
\* compute_forc_distribution with any extension) the object it was called on
\* holds the same h, hr, m, temperature and rho as before the call.
C1_ReceiverUnchanged ==
    call.op # "none" => Arrays(ds[call.recv]) = Arrays(call.before)

\* The largest sf any caller passes.
MaxPassedSf == CHOOSE f \in {a.sf : a \in CfdArgs} : \A a \in CfdArgs : a.sf <= f

\* C2: whatever calls are made on an object and on the objects returned from
\* it, no object ever has more than the imported column count plus 2*sf+1
\* columns: the low-field padding is added at most once.
C2_PaddedAtMostOnce ==
    \A k \in 1..Len(ds) : NCols(ds[k].h) <= NCols(imported.h) + 2 * MaxPassedSf + 1

\* C3: when compute_forc_distribution returns and the padded moment array has
\* no missing cell, the returned rho has the shape of that array and is missing
\* exactly in the cells within sf rows or sf columns of an edge, sf being the
\* value the caller passed.
C3_BorderIsPassedSf ==
    (call.op = "compute_forc_distribution" /\ call.exc = "")
    => LET d == ds[call.ret]
       IN  (\A i \in 1..NRows(d.m), j \in 1..NCols(d.m) : ~IsNaN(d.m[i][j]))
           => /\ Shape(d.rho) = Shape(d.m)
              /\ \A i \in 1..NRows(d.m), j \in 1..NCols(d.m) :
                    IsNaN(d.rho[i][j]) <=> <<i, j>> \notin Interior(d.m, call.args.sf)

\* The non-missing values of an array.
Values(a) == {a[i][j] : i \in 1..NRows(a), j \in 1..NCols(a)} \ {NaN}

\* C11: when normalize is called on a dataset whose moment array holds at least
\* two distinct non-missing values, the returned dataset's moment array has
\* maximum exactly +1 and minimum exactly -1 over its non-missing cells, its
\* m_range() is (-1, 1), and its missing cells are those of the input.
C11_NormalizeRange ==
    (call.op = "normalize" /\ call.exc = "" /\ Cardinality(Values(call.before.m)) >= 2)
    => LET d == ds[call.ret]
       IN  /\ I(1) \in Values(d.m)
           /\ I(-1) \in Values(d.m)
           /\ \A v \in Values(d.m) : ~Less(I(1), v) /\ ~Less(v, I(-1))
           /\ <<d._m_min, d._m_max>> = <<I(-1), I(1)>>
           /\ Shape(d.m) = Shape(call.before.m)
           /\ \A i \in 1..NRows(d.m), j \in 1..NCols(d.m) :
                  IsNaN(d.m[i][j]) <=> IsNaN(call.before.m[i][j])

\* normalize has returned for a dataset with a missing cell and at least three
\* distinct moments.
C11_Witness ==
    /\ call.op = "normalize" /\ call.exc = ""
    /\ Cardinality(Values(call.before.m)) >= 3
    /\ \E i \in 1..NRows(call.before.m), j \in 1..NCols(call.before.m) :
           IsNaN(call.before.m[i][j])

\* The cells of d below the diagonal by more than half a step.
Unmeasured(d) ==
    {<<i, j>> \in (1..NRows(d.h)) \X (1..NCols(d.h)) :
        Less(d.h[i][j], Sub(d.hr[i][j], Div(d.step, I(2))))}

MaskEnabled(mask) == mask = "True" \/ Lower(mask) = "h<hr"

\* C12: get_masked with masking enabled, on an array of the dataset's shape,
\* returns an array that is missing in every cell with h < hr - 0.5*step and
\* equal to the input in every other cell, and leaves the input array and the
\* dataset as they were.
C12_MaskedCopy ==
    (/\ query.op = "get_masked"
     /\ MaskEnabled(query.args.mask)
     /\ Shape(query.args.data.v) = Shape(query.self.h))
    => /\ query.exc = ""
       /\ Shape(query.ret.ret.v) = Shape(query.args.data.v)
       /\ \A i \in 1..NRows(query.self.h), j \in 1..NCols(query.self.h) :
              query.ret.ret.v[i][j] =
                  IF <<i, j>> \in Unmeasured(query.self) THEN NaN
                  ELSE query.args.data.v[i][j]
       /\ query.ret.data = query.args.data
       /\ ds[query.recv] = query.self

\* get_masked has masked a measured-looking cell: the input holds a number in
\* a cell that the result has missing.
C12_Witness ==
    /\ query.op = "get_masked" /\ query.exc = ""
    /\ MaskEnabled(query.args.mask)
    /\ query.self.rho # None
    /\ \E c \in Unmeasured(query.self) :
           /\ ~IsNaN(query.args.data.v[c[1]][c[2]])
           /\ IsNaN(query.ret.ret.v[c[1]][c[2]])
    /\ \E i \in 1..NRows(query.self.h), j \in 1..NCols(query.self.h) :
           <<i, j>> \notin Unmeasured(query.self) /\ ~IsNaN(query.ret.ret.v[i][j])

\* compute_forc_distribution has failed in the extension of the dataset: the
\* policy is none of the known names, or a row has no valid moment.
ExtensionFailed ==
    /\ call.op = "compute_forc_distribution"
    /\ call.args.method = "savitzky-golay"
    /\ call.exc \in {"NotImplementedError", "ValueError"}

\* C14: when compute_forc_distribution fails because the extension policy is
\* not a recognised name or because a row has no valid moment value, the
\* dataset it was called on holds the same h, hr, m and temperature as before
\* the call.
C14_FailureLeavesReceiver ==
    ExtensionFailed
    => /\ ds[call.recv].h = call.before.h
       /\ ds[call.recv].hr = call.before.hr
       /\ ds[call.recv].m = call.before.m
       /\ ds[call.recv].temperature = call.before.temperature

HasPath(a) == a.path.kind # "None"

HasArrays(a) == a.h.kind # "None" /\ a.hr.kind # "None" /\ a.m.kind # "None"

\* C15: the constructor fails when it is given both a path and the arrays h,
\* hr and m, and when it is given neither a path nor all three arrays; an
\* object is built from exactly one of the two input forms.
C15_ExactlyOneInputForm ==
    query.op = "__init__"
    => /\ (HasPath(query.args) /\ HasArrays(query.args)) => query.exc # ""
       /\ (~HasPath(query.args) /\ ~HasArrays(query.args)) => query.exc # ""
       /\ query.exc = "" => (HasPath(query.args) # HasArrays(query.args))

\* The spellings tried for each of the four names get_data allows.
Spellings ==
    [m |-> {"m", "M"}, rho |-> {"rho", "Rho"},
     rho_uncertainty |-> {"rho_uncertainty", "RHO_UNCERTAINTY"},
     temperature |-> {"temperature", "Temperature"}]

\* C16: get_data returns the stored field, or the absent marker, for each of
\* the names m, rho, rho_uncertainty and temperature in any case, and raises
\* ValueError for every other name; it raises nothing else.
C16_GetDataTotal ==
    query.op = "get_data"
    => /\ \A f \in {"m", "rho", "temperature"} :
              query.args.data_str \in Spellings[f]
              => /\ query.exc = ""
                 /\ query.ret.ret.v = query.self[f]
       /\ query.args.data_str \in Spellings["rho_uncertainty"]
              => /\ query.exc = ""
                 /\ query.ret.ret.kind = "None"
       /\ query.args.data_str \notin UNION {Spellings[f] : f \in DOMAIN Spellings}
              => query.exc = "ValueError"

\* The field f of d is present and holds a number in some cell.
Present(d, f) == f \in DOMAIN d /\ d[f] # None /\ Values(d[f]) # {}

\* C17: each presence predicate reports its own field: has_m, has_rho,
\* has_rho_uncertainty and has_temperature are true exactly when the dataset
\* holds m, rho, rho_uncertainty or temperature with a non-missing value; so an
\* imported dataset without temperature has has_rho, has_rho_uncertainty and
\* has_temperature false.
C17_PresenceOfOwnField ==
    query.op = "has"
    => query.ret.ret =
         Present(query.self,
                 CASE query.args.name = "has_m" -> "m"
                   [] query.args.name = "has_rho" -> "rho"
                   [] query.args.name = "has_rho_uncertainty" -> "rho_uncertainty"
                   [] query.args.name = "has_temperature" -> "temperature")

\* The array objects an object holds (0 names no array: the field is None).
ArrayObjects(d) == {d.id.h, d.id.hr, d.id.m, d.id.temperature, d.id.rho} \ {0}

\* C18: the dataset returned by slope_correction, normalize or
\* compute_forc_distribution holds no array object that the dataset it was
\* called on holds.
C18_NoSharedArray ==
    (call.op # "none" /\ call.exc = "")
    => ArrayObjects(ds[call.ret]) \cap ArrayObjects(ds[call.recv]) = {}

\* compute_forc_distribution has padded the dataset it was called on.
Padded ==
    /\ call.op = "compute_forc_distribution"
    /\ NCols(ds[call.recv].h) > NCols(call.before.h)

\* C19: after compute_forc_distribution has padded the columns at the
\* low-field edge, in every row of h every two adjacent columns differ by
\* exactly step.
C19_UniformAfterExtension ==
    Padded
    => \A i \in 1..NRows(ds[call.recv].h), j \in 1..(NCols(ds[call.recv].h) - 1) :
          Sub(ds[call.recv].h[i][j + 1], ds[call.recv].h[i][j]) = ds[call.recv].step

\* C20: in every reachable state of every dataset, whether the transform
\* calls before it succeeded or failed, h, hr, m and (when present)
\* temperature and rho all have the same shape.
C20_SameShapes ==
    \A k \in 1..Len(ds) :
        /\ Shape(ds[k].hr) = Shape(ds[k].h)
        /\ Shape(ds[k].m) = Shape(ds[k].h)
        /\ ds[k].temperature # None => Shape(ds[k].temperature) = Shape(ds[k].h)
        /\ ds[k].rho # None => Shape(ds[k].rho) = Shape(ds[k].h)

\* UniformForc.h_range, hr_range and m_range: the cached limits.
h_range(self) == <<self._h_min, self._h_max>>

hr_range(self) == <<self._hr_min, self._hr_max>>

m_range(self) == <<self._m_min, self._m_max>>

\* C21: in every reachable state of every dataset the cached ranges agree
\* with the arrays it holds now: h_range() is (min(h), max(h)), hr_range() is
\* (min(hr), max(hr)) and m_range() is (min, max) of the non-missing cells of m.
C21_RangesAgree ==
    \A k \in 1..Len(ds) :
        /\ h_range(ds[k]) = <<NpMin(ds[k].h), NpMax(ds[k].h)>>
        /\ hr_range(ds[k]) = <<NpMin(ds[k].hr), NpMax(ds[k].hr)>>
        /\ m_range(ds[k]) = <<NpNanMin(ds[k].m), NpNanMax(ds[k].m)>>

\* The cells of d whose field is below the reversal field by more than half
\* a step.
BelowReversal(d) ==
    {c \in (1..NRows(d.h)) \X (1..NCols(d.h)) :
        Less(d.h[c[1]][c[2]], Sub(d.hr[c[1]][c[2]], Mul(Q(1, 2), d.step)))}

MissingBelowReversal(d) == \A c \in BelowReversal(d) : IsNaN(d.m[c[1]][c[2]])

\* C22 as stated: in every dataset reachable from an imported one by
\* transforms, m is missing at every cell with h < hr - 0.5*step.
C22_MissingBelowReversal == \A k \in 1..Len(ds) : MissingBelowReversal(ds[k])

\* The dataset has the columns of the imported mesh: no edge extension has
\* padded it.
Unpadded(d) == NCols(d.h) = NCols(imported.h)

\* C22, amended: in every dataset reachable from an imported one by
\* transforms that no edge extension has padded (slope_correction, normalize,
\* compute_forc_distribution with extension 'truncate'), m is missing at
\* every cell with h < hr - 0.5*step.
C22_MissingBelowReversalUnlessPadded ==
    \A k \in 1..Len(ds) : Unpadded(ds[k]) => MissingBelowReversal(ds[k])

\* A transform has returned an unpadded dataset that has cells below the
\* reversal field.
C22_Witness ==
    /\ call.op # "none"
    /\ call.exc = ""
    /\ Unpadded(ds[call.ret])
    /\ BelowReversal(ds[call.ret]) # {}
    /\ ds[call.ret].m # imported.m

\* Array a is array b with pad columns of missing values in front.
PaddedWithMissing(a, b, pad) ==
    /\ NRows(a) = NRows(b)
    /\ \A i \in 1..NRows(a) :
          /\ Len(a[i]) = Len(b[i]) + pad
          /\ \A j \in 1..pad : IsNaN(a[i][j])
          /\ \A j \in 1..Len(b[i]) : a[i][pad + j] = b[i][j]

\* C26: with the extension policy 'leave' the edge extender pads 2*span+1
\* columns at the low-field edge, fills them with missing in m (and in the
\* temperature when present), changes nothing else, and does not fail.
C26_LeavePadsWithMissing ==
    (/\ call.op = "compute_forc_distribution"
     /\ call.args.extension = "leave"
     /\ call.args.method = "savitzky-golay"
     /\ call.before.rho = None)
    => /\ call.exc = ""
       /\ NCols(ds[call.recv].h) = NCols(call.before.h) + 2 * ExtendSf + 1
       /\ PaddedWithMissing(ds[call.recv].m, call.before.m, 2 * ExtendSf + 1)
       /\ call.before.temperature # None
            => PaddedWithMissing(ds[call.recv].temperature, call.before.temperature,
                                 2 * ExtendSf + 1)

\* The line fitted through the cells of the last row of d from its first to
\* its last non-missing column, both included.
FitThroughAllValid(d) ==
    LET R == NRows(d.h)
    IN  LineFit(SubSeq(d.h[R], arg_first_not_nan(d.m[R]), arg_last_non_nan(d.m[R])),
                SubSeq(d.m[R], arg_first_not_nan(d.m[R]), arg_last_non_nan(d.m[R])))

\* slope_correction was called without h_sat and without value on a dataset
\* whose last row holds a number.
AutomaticSlope ==
    /\ call.op = "slope_correction"
    /\ call.args.value = None
    /\ call.args.h_sat = None
    /\ arg_first_not_nan(call.before.m[NRows(call.before.m)]) # 0

\* C28: automatic slope correction without h_sat fits its line through all
\* non-missing samples of the highest-reversal-field row: the cells from the
\* first to the last non-missing column of the last row, both included.
C28_AutoSlopeUsesAllValid ==
    AutomaticSlope
    => /\ call.exc = FitThroughAllValid(call.before).exc
       /\ call.exc = ""
            => ds[call.ret].m = MinusScaled(call.before.m,
                                            FitThroughAllValid(call.before).a,
                                            call.before.h)

----------------------------------------------------------------------------
(* The PMC file parser: PMCImporter._extract_raw_data *)

MaxLines == 4

MaxCurves == 3

\* A line is the sequence of its comma-separated fields (line.split(',')), a
\* field is a string.  "\n" is the text of an empty ln, "Hb1" the start of a
\* header ln, "+x" a signed field that is no number.
FieldTexts == {"+1", "-2", "+3", "-1", "+0", "+0.5", "+x", "Hb1", "\n"}

\* line[0] for a line whose first field is t
FirstChar(t) ==
    CASE t \in {"+1", "+3", "+0", "+0.5", "+x"} -> "+"
      [] t \in {"-2", "-1"} -> "-"
      [] t = "Hb1" -> "H"
      [] OTHER -> "\n"

\* float(t): the number read, or ValueError
float(t) ==
    CASE t = "+1" -> [exc |-> "", v |-> I(1)]
      [] t = "-2" -> [exc |-> "", v |-> I(-2)]
      [] t = "+3" -> [exc |-> "", v |-> I(3)]
      [] t = "-1" -> [exc |-> "", v |-> I(-1)]
      [] t = "+0" -> [exc |-> "", v |-> I(0)]
      [] t = "+0.5" -> [exc |-> "", v |-> Q(1, 2)]
      [] OTHER -> [exc |-> "ValueError", v |-> NaN]

\* lines[i][0] in ['+', '-']
IsDataLine(ln) == FirstChar(ln[1]) \in {"+", "-"}

\* PMCImporter._has_drift_points
_has_drift_points(ls) == \E i \in 1..Len(ls) : ls[i][1] = "Hb1"

\* PMCImporter._lines_have_temperature
_lines_have_temperature(ln) == Len(ln) = 3

\* A _find_first_data_point that returns 0 where it should raise.
FindFirstOrZero(ls) ==
    LET data == {i \in 1..Len(ls) : IsDataLine(ls[i])}
    IN  IF data = {} THEN [exc |-> "", i |-> 0]
        ELSE [exc |-> "", i |-> (CHOOSE i \in data : \A k \in data : i <= k) - 1]

\* PMCImporter._find_first_data_point: the 0-based index of the first data
\* ln, or DataFormatError.
_find_first_data_point(ls) ==
    LET data == {i \in 1..Len(ls) : IsDataLine(ls[i])}
    IN  IF data = {} THEN [exc |-> "DataFormatError", i |-> 0]
        ELSE [exc |-> "", i |-> (CHOOSE i \in data : \A k \in data : i <= k) - 1]

\* The importer as __init__ leaves it before _from_file.  The temperature is
\* None (is_none) or a list.
NewImporter ==
    [h |-> <<>>, hr |-> <<>>, m |-> <<>>,
     temperature |-> [is_none |-> TRUE, list |-> <<>>], drift_points |-> <<>>]

\* An _extract_drift_point that keeps a single drift point.
ExtractDriftPointOnce(self, ln) ==
    IF Len(ln) < 2 THEN [exc |-> "IndexError", self |-> self]
    ELSE IF float(ln[2]).exc # "" THEN [exc |-> float(ln[2]).exc, self |-> self]
    ELSE [exc |-> "",
          self |-> [self EXCEPT !.drift_points =
                        IF @ = <<>> THEN <<float(ln[2]).v>> ELSE @]]

\* PMCImporter._extract_drift_point: appends float(ln.split(',')[1]).
_extract_drift_point(self, ln) ==
    IF Len(ln) < 2 THEN [exc |-> "IndexError", self |-> self]
    ELSE IF float(ln[2]).exc # "" THEN [exc |-> float(ln[2]).exc, self |-> self]
    ELSE [exc |-> "",
          self |-> [self EXCEPT !.drift_points = Append(@, float(ln[2]).v)]]

\* A loop body that takes the reversal field from the sample itself.
ReadSampleOwnField(acc, ln, with_temperature) ==
    IF float(ln[1]).exc # "" THEN [acc EXCEPT !.exc = float(ln[1]).exc]
    ELSE IF Len(ln) < 2 THEN [acc EXCEPT !.exc = "IndexError"]
    ELSE IF float(ln[2]).exc # "" THEN [acc EXCEPT !.exc = float(ln[2]).exc]
    ELSE IF with_temperature /\ Len(ln) < 3 THEN [acc EXCEPT !.exc = "IndexError"]
    ELSE IF with_temperature /\ float(ln[3]).exc # ""
    THEN [acc EXCEPT !.exc = float(ln[3]).exc]
    ELSE [exc |-> "", _h |-> Append(acc._h, float(ln[1]).v),
          _hr |-> Append(acc._hr, float(ln[1]).v),
          _m |-> Append(acc._m, float(ln[2]).v),
          _temperature |-> IF with_temperature
                           THEN Append(acc._temperature, float(ln[3]).v)
                           ELSE acc._temperature]

\* The body of the while loop of _extract_next_forc on one data line: the
\* locals _h, _hr, _m, _temperature with one more sample, or the exception of
\* the first conversion that fails.
ReadSample(acc, ln, with_temperature) ==
    IF float(ln[1]).exc # "" THEN [acc EXCEPT !.exc = float(ln[1]).exc]
    ELSE IF Len(ln) < 2 THEN [acc EXCEPT !.exc = "IndexError"]
    ELSE IF float(ln[2]).exc # "" THEN [acc EXCEPT !.exc = float(ln[2]).exc]
    ELSE IF with_temperature /\ Len(ln) < 3 THEN [acc EXCEPT !.exc = "IndexError"]
    ELSE IF with_temperature /\ float(ln[3]).exc # ""
    THEN [acc EXCEPT !.exc = float(ln[3]).exc]
    ELSE LET _h == Append(acc._h, float(ln[1]).v)
         IN  [exc |-> "", _h |-> _h, _hr |-> Append(acc._hr, _h[1]),
              _m |-> Append(acc._m, float(ln[2]).v),
              _temperature |-> IF with_temperature
                               THEN Append(acc._temperature, float(ln[3]).v)
                               ELSE acc._temperature]

\* The while loop of _extract_next_forc from line k (1-based) of ls on: it
\* runs off the end of the list with IndexError when no other line follows the
\* data lines.
RECURSIVE ScanForc(_, _, _, _)
ScanForc(ls, k, with_temperature, acc) ==
    IF k > Len(ls) THEN [acc EXCEPT !.exc = "IndexError"]
    ELSE IF ~IsDataLine(ls[k]) THEN acc
    ELSE LET r == ReadSample(acc, ls[k], with_temperature)
         IN  IF r.exc # "" THEN r ELSE ScanForc(ls, k + 1, with_temperature, r)

\* PMCImporter._extract_next_forc(lines[i:]), i 0-based: the importer with one
\* more curve and the number of lines read, or the exception.
_extract_next_forc(self, ls, i) ==
    LET with_temperature == ~self.temperature.is_none
        r == ScanForc(ls, i + 1, with_temperature,
                      [exc |-> "", _h |-> <<>>, _hr |-> <<>>, _m |-> <<>>,
                       _temperature |-> <<>>])
    IN  IF r.exc # "" THEN [exc |-> r.exc, self |-> self, n |-> 0]
        ELSE [exc |-> "", n |-> Len(r._h),
              self |-> [self EXCEPT !.h = Append(@, r._h), !.hr = Append(@, r._hr),
                                    !.m = Append(@, r._m),
                                    !.temperature =
                                        IF with_temperature
                                        THEN [@ EXCEPT !.list = Append(@, r._temperature)]
                                        ELSE @]]

\* The lines tried: data lines of two and of three fields, a data line of one
\* field, a data line whose field is no number, a header line that starts
\* with Hb1, an empty line.
LineTexts ==
    { <<"+1", "+3">>, <<"-2", "+1">>, <<"+3", "-2", "+1">>, <<"-2">>, <<"+x", "+1">>,
      <<"Hb1">>, <<"\n">> }

\* Every file of at most MaxLines of these lines.
ArbitraryFiles == UNION {{AsTuple(f) : f \in [1..n -> LineTexts]} : n \in 0..MaxLines}

RECURSIVE ConcatAll(_)
ConcatAll(ss) == IF ss = <<>> THEN <<>> ELSE Head(ss) \o ConcatAll(Tail(ss))

\* The files an instrument writes, with up to MaxCurves curves of one or two
\* samples: with drift points a header line Hb1, then for each curve its drift
\* line, an empty line, the data lines and an empty line; without drift points
\* the data lines of each curve and an empty line.
CurveRuns(with_temperature) ==
    IF with_temperature
    THEN {<<(<<"+3", "-2", "+1">>)>>, <<(<<"-2", "+3", "+3">>), (<<"+3", "-2", "+1">>)>>}
    ELSE {<<(<<"+1", "+3">>)>>, <<(<<"-2", "+1">>), (<<"+1", "+3">>)>>}

DriftLines(with_temperature) ==
    IF with_temperature THEN {<<"+3", "-2", "+1">>} ELSE {<<"+1", "+3">>, <<"-2", "+1">>}

WithDriftFiles ==
    UNION {{<<(<<"Hb1">>)>> \o
            ConcatAll([k \in 1..n |-> <<d[k], (<<"\n">>)>> \o c[k] \o <<(<<"\n">>)>>]) :
               d \in [1..n -> DriftLines(t)], c \in [1..n -> CurveRuns(t)]} :
           n \in 1..MaxCurves, t \in BOOLEAN}

WithoutDriftFiles ==
    UNION {{hdr \o ConcatAll([k \in 1..n |-> c[k] \o <<(<<"\n">>)>>]) :
               hdr \in {<<>>, <<(<<"\n">>)>>}, c \in [1..n -> CurveRuns(t)]} :
           n \in 1..MaxCurves, t \in BOOLEAN}

ParseInit ==
    /\ lines \in ArbitraryFiles \cup WithDriftFiles \cup WithoutDriftFiles
    /\ imp = NewImporter
    /\ p_i = 0
    /\ p_mode = FALSE
    /\ p_pc = "start"
    /\ p_exc = ""
    /\ p_starts = <<>>
    /\ p_opts = None
    /\ SgIdle /\ DsIdle /\ DriftIdle /\ FlatIdle

\* An exception leaves _extract_raw_data: the importer keeps what was
\* appended before it.
ParseRaise(self, exc) ==
    /\ imp' = self
    /\ p_exc' = exc
    /\ p_pc' = "raised"
    /\ UNCHANGED <<lines, p_i, p_mode, p_starts, p_opts>>

\* _extract_raw_data up to the choice of the loop
FindFirstDataPoint ==
    /\ p_pc = "start"
    /\ LET r == _find_first_data_point(lines)
       IN  IF r.exc # "" THEN ParseRaise(imp, r.exc)
           ELSE IF r.i >= Len(lines) THEN ParseRaise(imp, "IndexError")
           ELSE /\ p_i' = r.i
                /\ imp' = IF _lines_have_temperature(lines[r.i + 1])
                          THEN [imp EXCEPT !.temperature = [is_none |-> FALSE, list |-> <<>>]]
                          ELSE imp
                /\ p_mode' = _has_drift_points(lines)
                /\ p_pc' = "loop"
                /\ UNCHANGED <<lines, p_exc, p_starts, p_opts>>
    /\ UNCHANGED <<sgVars, dsVars, driftVars, flatVars>>

\* i < len(lines) and lines[i][0] in ['+', '-']
LoopCondition == p_i < Len(lines) /\ IsDataLine(lines[p_i + 1])

\* An iteration that records the last field of the drift line.
LoopWithDriftLastField ==
    /\ p_pc = "loop" /\ p_mode /\ LoopCondition
    /\ LET ln == lines[p_i + 1]
           d == _extract_drift_point(imp, <<ln[1], ln[Len(ln)]>>)
           f == _extract_next_forc(d.self, lines, p_i + 2)
       IN  IF d.exc # "" THEN ParseRaise(d.self, d.exc)
           ELSE IF f.exc # "" THEN ParseRaise(f.self, f.exc)
           ELSE /\ imp' = f.self
                /\ p_i' = p_i + 2 + f.n + 1
                /\ p_starts' = Append(p_starts, p_i)
                /\ UNCHANGED <<lines, p_mode, p_pc, p_exc, p_opts>>
    /\ UNCHANGED <<sgVars, dsVars, driftVars, flatVars>>

\* One iteration of the loop for files with drift points
LoopWithDrift ==
    /\ p_pc = "loop" /\ p_mode /\ LoopCondition
    /\ LET d == _extract_drift_point(imp, lines[p_i + 1])
           f == _extract_next_forc(d.self, lines, p_i + 2)
       IN  IF d.exc # "" THEN ParseRaise(d.self, d.exc)
           ELSE IF f.exc # "" THEN ParseRaise(f.self, f.exc)
           ELSE /\ imp' = f.self
                /\ p_i' = p_i + 2 + f.n + 1
                /\ p_starts' = Append(p_starts, p_i)
                /\ UNCHANGED <<lines, p_mode, p_pc, p_exc, p_opts>>
    /\ UNCHANGED <<sgVars, dsVars, driftVars, flatVars>>

\* An iteration that takes the drift point from the first line of the curve.
LoopWithoutDriftFirstLine ==
    /\ p_pc = "loop" /\ ~p_mode /\ LoopCondition
    /\ LET f == _extract_next_forc(imp, lines, p_i)
           d == _extract_drift_point(f.self, lines[p_i + 1])
       IN  IF f.exc # "" THEN ParseRaise(f.self, f.exc)
           ELSE IF d.exc # "" THEN ParseRaise(d.self, d.exc)
           ELSE /\ imp' = d.self
                /\ p_i' = p_i + f.n + 1
                /\ p_starts' = Append(p_starts, p_i)
                /\ UNCHANGED <<lines, p_mode, p_pc, p_exc, p_opts>>
    /\ UNCHANGED <<sgVars, dsVars, driftVars, flatVars>>

\* One iteration of the loop for files without drift points
LoopWithoutDrift ==
    /\ p_pc = "loop" /\ ~p_mode /\ LoopCondition
    /\ LET f == _extract_next_forc(imp, lines, p_i)
           d == _extract_drift_point(f.self, lines[p_i + f.n])
       IN  IF f.exc # "" THEN ParseRaise(f.self, f.exc)
           ELSE IF d.exc # "" THEN ParseRaise(d.self, d.exc)
           ELSE /\ imp' = d.self
                /\ p_i' = p_i + f.n + 1
                /\ p_starts' = Append(p_starts, p_i)
                /\ UNCHANGED <<lines, p_mode, p_pc, p_exc, p_opts>>
    /\ UNCHANGED <<sgVars, dsVars, driftVars, flatVars>>

\* The loop condition fails: _extract_raw_data returns.
ParseReturn ==
    /\ p_pc = "loop" /\ ~LoopCondition
    /\ p_pc' = "done"
    /\ UNCHANGED <<lines, imp, p_i, p_mode, p_exc, p_starts, p_opts>>
    /\ UNCHANGED <<sgVars, dsVars, driftVars, flatVars>>

ParseNext == FindFirstDataPoint \/ LoopWithDrift \/ LoopWithoutDrift \/ ParseReturn

SpecParse == ParseInit /\ [][ParseNext]_vars

----------------------------------------------------------------------------
(* Claims about the parser *)

\* The maximal runs of consecutive data lines of a file, in file order, each
\* as <<first, last>> (1-based).
DataRuns(ls) ==
    LET starts == {i \in 1..Len(ls) :
                      IsDataLine(ls[i]) /\ (i = 1 \/ ~IsDataLine(ls[i - 1]))}
        last(s) == CHOOSE e \in s..Len(ls) :
                      /\ \A k \in s..e : IsDataLine(ls[k])
                      /\ (e = Len(ls) \/ ~IsDataLine(ls[e + 1]))
        nth(k) == CHOOSE st \in starts : Cardinality({x \in starts : x < st}) = k - 1
    IN  [k \in 1..Cardinality(starts) |-> <<nth(k), last(nth(k))>>]

\* A well-formed file: every data line holds two numbers, or every data line
\* holds three; each run of data lines is followed by exactly one other line
\* before the next run, and the last run is followed by a line too; with
\* drift points (a line starts with Hb1) the runs alternate between one drift
\* line and the data lines of a curve.
IsWellFormed(ls) ==
    LET runs == DataRuns(ls)
        n == Len(runs)
    IN  /\ n >= 1
        /\ runs[n][2] < Len(ls)
        /\ \A k \in 1..(n - 1) : runs[k + 1][1] = runs[k][2] + 2
        /\ \A i \in 1..Len(ls) : IsDataLine(ls[i]) =>
              /\ Len(ls[i]) \in {2, 3}
              /\ Len(ls[i]) = Len(ls[runs[1][1]])
              /\ \A c \in 1..Len(ls[i]) : float(ls[i][c]).exc = ""
        /\ _has_drift_points(ls) =>
              /\ n % 2 = 0
              /\ \A k \in 1..n : k % 2 = 1 => runs[k][1] = runs[k][2]

\* The curves of a well-formed file, in file order, each as <<first, last>>.
FileCurves(ls) ==
    LET runs == DataRuns(ls)
    IN  IF _has_drift_points(ls) THEN [k \in 1..(Len(runs) \div 2) |-> runs[2 * k]]
        ELSE runs

\* Column c of the lines first..last, as numbers.
FileColumn(ls, run, c) == [j \in 1..(run[2] - run[1] + 1) |-> float(ls[run[1] + j - 1][c]).v]

ParseEnded == p_pc \in {"done", "raised"}

\* C6: parsing a well-formed file of N curves, with or without drift points,
\* returns with exactly N curves in file order; in each curve h, hr and m have
\* the same length and every hr entry is the field of the curve's first sample.
C6_WellFormedFileGivesItsCurves ==
    (ParseEnded /\ IsWellFormed(lines))
    => LET curves == FileCurves(lines)
       IN  /\ p_pc = "done"
           /\ Len(imp.h) = Len(curves) /\ Len(imp.hr) = Len(curves) /\ Len(imp.m) = Len(curves)
           /\ \A k \in 1..Len(curves) :
                /\ imp.h[k] = FileColumn(lines, curves[k], 1)
                /\ imp.m[k] = FileColumn(lines, curves[k], 2)
                /\ Len(imp.hr[k]) = Len(imp.h[k])
                /\ \A j \in 1..Len(imp.hr[k]) : imp.hr[k][j] = imp.h[k][1]

C6_Witness ==
    /\ p_pc = "done" /\ IsWellFormed(lines) /\ p_mode
    /\ Len(imp.h) = MaxCurves
    /\ \E k \in 1..Len(imp.h) : Len(imp.h[k]) = 2 /\ imp.h[k][1] # imp.h[k][2]

\* C7: parsing lines of which none begins with '+' or '-' fails with
\* DataFormatError and leaves no curve and no drift sample.
C7_NoDataLineFails ==
    (p_pc # "start" /\ \A i \in 1..Len(lines) : ~IsDataLine(lines[i]))
    => /\ p_pc = "raised" /\ p_exc = "DataFormatError"
       /\ imp.h = <<>> /\ imp.hr = <<>> /\ imp.m = <<>> /\ imp.drift_points = <<>>

C7_Witness ==
    /\ p_pc = "raised" /\ p_exc = "DataFormatError"
    /\ Len(lines) >= 2 /\ _has_drift_points(lines)

\* C8: when parsing returns, with or without drift points, there is one drift
\* sample per curve, and the k-th sample is the one of the k-th curve: with
\* drift points the second field of the drift line the k-th iteration started
\* at, the curve being the data lines two lines further; without drift points
\* the moment of the last line of the k-th curve.
C8_OneDriftSamplePerCurve ==
    p_pc = "done"
    => /\ Len(imp.drift_points) = Len(imp.m)
       /\ Len(imp.m) = Len(imp.h) /\ Len(imp.h) = Len(imp.hr)
       /\ Len(p_starts) = Len(imp.m)
       /\ \A k \in 1..Len(imp.m) :
            LET first == p_starts[k] + 1 + (IF p_mode THEN 2 ELSE 0)
                run == <<first, first + Len(imp.m[k]) - 1>>
            IN  /\ imp.m[k] = FileColumn(lines, run, 2)
                /\ imp.h[k] = FileColumn(lines, run, 1)
                /\ imp.drift_points[k] =
                      IF p_mode THEN float(lines[p_starts[k] + 1][2]).v
                      ELSE imp.m[k][Len(imp.m[k])]

C8_Witness ==
    /\ p_pc = "done" /\ p_mode /\ Len(imp.drift_points) = MaxCurves
    /\ imp.drift_points[1] # imp.drift_points[2]

\* C23: for every input file and in both drift modes the parser never
\* appends a curve with zero samples: every curve of the importer has at
\* least one (field, reversal-field, moment) sample.
C23_NoEmptyCurve ==
    \A k \in 1..Len(imp.h) :
        Len(imp.h[k]) >= 1 /\ Len(imp.hr[k]) >= 1 /\ Len(imp.m[k]) >= 1

\* The drift line the k-th iteration of the with-drift loop started at.
DriftLineOf(k) == lines[p_starts[k] + 1]

\* The k-th curve is the contiguous run of data lines that begins two lines
\* after its drift line and ends before a line that is no data line.
CurveFollowsDriftLine(k) ==
    LET first == p_starts[k] + 3
        run == <<first, first + Len(imp.m[k]) - 1>>
    IN  /\ imp.h[k] = FileColumn(lines, run, 1)
        /\ imp.m[k] = FileColumn(lines, run, 2)
        /\ \A i \in run[1]..run[2] : IsDataLine(lines[i])
        /\ run[2] < Len(lines)
        /\ ~IsDataLine(lines[run[2] + 1])

\* C24 as stated: with drift points, the drift sample recorded for each curve
\* is the last comma-separated field of the drift line that precedes it, also
\* when that line has three fields, and the curve is the contiguous run of
\* data lines that follows the drift line.
C24_DriftIsLastField ==
    p_mode
    => \A k \in 1..Len(p_starts) :
          /\ imp.drift_points[k] = float(DriftLineOf(k)[Len(DriftLineOf(k))]).v
          /\ CurveFollowsDriftLine(k)

\* C24, amended: with drift points, the drift sample recorded for each curve
\* is the second comma-separated field (the moment) of the drift line that
\* precedes it, which is the last field only when the line has two fields,
\* and the curve is the contiguous run of data lines that begins two lines
\* after the drift line.
C24_DriftIsSecondField ==
    p_mode
    => \A k \in 1..Len(p_starts) :
          /\ Len(DriftLineOf(k)) >= 2
          /\ imp.drift_points[k] = float(DriftLineOf(k)[2]).v
          /\ CurveFollowsDriftLine(k)

\* Parsing has returned from a file with drift lines of three fields whose
\* second and last fields differ, and with a curve of two samples.
C24_Witness ==
    /\ p_pc = "done" /\ p_mode /\ Len(p_starts) >= 2
    /\ \E k \in 1..Len(p_starts) :
          /\ Len(DriftLineOf(k)) = 3
          /\ float(DriftLineOf(k)[2]).v # float(DriftLineOf(k)[3]).v
          /\ Len(imp.m[k]) = 2

\* The last data line of the k-th curve of a file without drift points.
LastLineOf(k) == lines[p_starts[k] + Len(imp.m[k])]

\* C25: without drift points, for every curve the drift sample is the moment
\* (second comma-separated value) of the curve's last data line, and that
\* line is still the final sample of the curve: the curve's last moment
\* equals its drift sample.
C25_LastLineIsDriftSample ==
    ~p_mode
    => \A k \in 1..Len(p_starts) :
          /\ Len(imp.m[k]) >= 1
          /\ IsDataLine(LastLineOf(k))
          /\ ~IsDataLine(lines[p_starts[k] + Len(imp.m[k]) + 1])
          /\ imp.drift_points[k] = float(LastLineOf(k)[2]).v
          /\ imp.m[k][Len(imp.m[k])] = imp.drift_points[k]
          /\ imp.h[k][Len(imp.h[k])] = float(LastLineOf(k)[1]).v

\* Parsing has returned from a file without drift points that has a curve of
\* two samples with different moments.
C25_Witness ==
    /\ p_pc = "done" /\ ~p_mode /\ Len(p_starts) >= 2
    /\ \E k \in 1..Len(p_starts) : Len(imp.m[k]) = 2 /\ imp.m[k][1] # imp.m[k][2]

\* C27: parsing any finite sequence of lines ends, and it either returns the
\* curves and drift samples or fails with DataFormatError; a file whose last
\* line is a data line, or a with-drift file that ends right after a drift
\* line, does not end in an out-of-range index failure.
C27_ReturnsOrDataFormatError ==
    ParseEnded => (p_pc = "done" \/ (p_pc = "raised" /\ p_exc = "DataFormatError"))

----------------------------------------------------------------------------
(* The import of a file: PMCImporter.__init__ after _from_file *)

\* The least integer >= x
Ceil(x) == 0 - ((0 - x[1]) \div x[2])

\* np.arange(start, stop, step) for a step that is a number other than 0:
\* the values start + k*step below stop (the interval is half-open).
arange(start, stop, step) ==
    LET n == Ceil(Div(Sub(stop, start), step))
    IN  AsTuple([k \in 1..(IF n > 0 THEN n ELSE 0) |-> Add(start, Mul(I(k - 1), step))])

\* PMCImporter._determine_step on the raw curves: np.diff of a curve of fewer
\* than two samples is empty and its mean is NaN.
PMC_determine_step(self) ==
    LET rowmean(i) ==
            IF Len(self.h[i]) < 2 THEN NaN
            ELSE Div(SumSeq([j \in 1..(Len(self.h[i]) - 1) |->
                         Sub(self.h[i][j + 1], self.h[i][j])]),
                     I(Len(self.h[i]) - 1))
    IN  IF Len(self.h) = 0 THEN NaN
        ELSE Div(SumSeq([i \in 1..Len(self.h) |-> rowmean(i)]), I(Len(self.h)))

\* scipy.interpolate.griddata(points, values, (x, y), method='nearest'): the
\* value of a data point at the least distance.  Which of several nearest
\* points is taken is left to the k-d tree: tie says whether the first or the
\* last of them in data order is.
Nearest(points, values, x, y, tie) ==
    LET D(k) == Add(Mul(Sub(points[k][1], x), Sub(points[k][1], x)),
                    Mul(Sub(points[k][2], y), Sub(points[k][2], y)))
        dist == AsTuple([k \in 1..Len(points) |-> D(k)])
        near == {k \in 1..Len(points) : \A l \in 1..Len(points) : ~Less(dist[l], dist[k])}
    IN  values[CHOOSE k \in near :
                   \A l \in near : IF tie = "first" THEN k <= l ELSE k >= l]

\* An _interpolate whose mesh includes the upper ends of the ranges.
InterpolateClosedMesh(self, method, tie) ==
    IF Len(self.h) = 0 \/ Len(self.h[1]) = 0 THEN [exc |-> "IndexError", self |-> self]
    ELSE IF \E i \in 1..Len(self.h) : Len(self.h[i]) = 0
    THEN [exc |-> "ValueError", self |-> self]
    ELSE IF IsNaN(self.step) THEN [exc |-> "ValueError", self |-> self]
    ELSE IF self.step[1] = 0 THEN [exc |-> "ZeroDivisionError", self |-> self]
    ELSE IF method # "nearest" THEN [exc |-> "ValueError", self |-> self]
    ELSE The({ The({ [exc |-> "", self |->
                        [self EXCEPT
                           !.h = AsTuple([i \in 1..Len(g.hr) |-> g.h]),
                           !.hr = AsTuple([i \in 1..Len(g.hr) |->
                                     AsTuple([j \in 1..Len(g.h) |-> g.hr[i]])]),
                           !.m = AsTuple([i \in 1..Len(g.hr) |->
                                    AsTuple([j \in 1..Len(g.h) |->
                                       IF Less(g.h[j], g.hr[i]) THEN NaN
                                       ELSE Nearest(d.hhr, d.m, g.h[j], g.hr[i], tie)])]),
                           !.temperature =
                               IF self.temperature.is_none THEN @
                               ELSE [@ EXCEPT !.list =
                                       AsTuple([i \in 1..Len(g.hr) |->
                                          AsTuple([j \in 1..Len(g.h) |->
                                             Nearest(d.hhr, d.t, g.h[j], g.hr[i], tie)])])]]] :
                     g \in {[h |-> arange(d.h_min, Add(d.h_max, self.step), self.step),
                             hr |-> arange(d.hr_min, Add(d.hr_max, self.step), self.step)]} }) :
               d \in {[h_min |-> Fold("min", ConcatAll(self.h), 1, Len(ConcatAll(self.h))),
                       h_max |-> Fold("max", ConcatAll(self.h), 1, Len(ConcatAll(self.h))),
                       hr_min |-> Fold("min", ConcatAll(self.hr), 1, Len(ConcatAll(self.hr))),
                       hr_max |-> Fold("max", ConcatAll(self.hr), 1, Len(ConcatAll(self.hr))),
                       hhr |-> AsTuple([k \in 1..Len(ConcatAll(self.h)) |->
                                  <<ConcatAll(self.h)[k], ConcatAll(self.hr)[k]>>]),
                       m |-> ConcatAll(self.m),
                       t |-> IF self.temperature.is_none THEN <<>>
                             ELSE ConcatAll(self.temperature.list)]} })

\* PMCImporter._interpolate(method): h, hr, m (and the temperature) of the
\* importer become arrays on the mesh np.arange(h_min, h_max, step) x
\* np.arange(hr_min, hr_max, step); m is NaN where h < hr.  An array of no rows
\* is <<>>.  Of the methods of griddata, 'nearest' is modelled; a name that
\* griddata does not know raises ValueError.
_interpolate(self, method, tie) ==
    IF Len(self.h) = 0 \/ Len(self.h[1]) = 0 THEN [exc |-> "IndexError", self |-> self]
    ELSE IF \E i \in 1..Len(self.h) : Len(self.h[i]) = 0
    THEN [exc |-> "ValueError", self |-> self]
    ELSE IF IsNaN(self.step) THEN [exc |-> "ValueError", self |-> self]
    ELSE IF self.step[1] = 0 THEN [exc |-> "ZeroDivisionError", self |-> self]
    ELSE IF method # "nearest" THEN [exc |-> "ValueError", self |-> self]
    ELSE The({ The({ [exc |-> "", self |->
                        [self EXCEPT
                           !.h = AsTuple([i \in 1..Len(g.hr) |-> g.h]),
                           !.hr = AsTuple([i \in 1..Len(g.hr) |->
                                     AsTuple([j \in 1..Len(g.h) |-> g.hr[i]])]),
                           !.m = AsTuple([i \in 1..Len(g.hr) |->
                                    AsTuple([j \in 1..Len(g.h) |->
                                       IF Less(g.h[j], g.hr[i]) THEN NaN
                                       ELSE Nearest(d.hhr, d.m, g.h[j], g.hr[i], tie)])]),
                           !.temperature =
                               IF self.temperature.is_none THEN @
                               ELSE [@ EXCEPT !.list =
                                       AsTuple([i \in 1..Len(g.hr) |->
                                          AsTuple([j \in 1..Len(g.h) |->
                                             Nearest(d.hhr, d.t, g.h[j], g.hr[i], tie)])])]]] :
                     g \in {[h |-> arange(d.h_min, d.h_max, self.step),
                             hr |-> arange(d.hr_min, d.hr_max, self.step)]} }) :
               d \in {[h_min |-> Fold("min", ConcatAll(self.h), 1, Len(ConcatAll(self.h))),
                       h_max |-> Fold("max", ConcatAll(self.h), 1, Len(ConcatAll(self.h))),
                       hr_min |-> Fold("min", ConcatAll(self.hr), 1, Len(ConcatAll(self.hr))),
                       hr_max |-> Fold("max", ConcatAll(self.hr), 1, Len(ConcatAll(self.hr))),
                       hhr |-> AsTuple([k \in 1..Len(ConcatAll(self.h)) |->
                                  <<ConcatAll(self.h)[k], ConcatAll(self.hr)[k]>>]),
                       m |-> ConcatAll(self.m),
                       t |-> IF self.temperature.is_none THEN <<>>
                             ELSE ConcatAll(self.temperature.list)]} })

\* self.step = ...: the importer with its step attribute
WithStep(self, step) ==
    [h |-> self.h, hr |-> self.hr, m |-> self.m, temperature |-> self.temperature,
     drift_points |-> self.drift_points, step |-> step]

\* The two-curve file: fields -1, 0, 1 with the moments -1, 0, 1 and then
\* fields -1, 0, 1 with the moments 0, 0.5, 1; written without drift points
\* and with them.
ScenarioCurves ==
    << <<(<<"-1", "-1">>), (<<"+0", "+0">>), (<<"+1", "+1">>)>>,
       <<(<<"-1", "+0">>), (<<"+0", "+0.5">>), (<<"+1", "+1">>)>> >>

ScenarioFiles ==
    { ConcatAll([k \in 1..2 |-> ScenarioCurves[k] \o <<(<<"\n">>)>>]),
      <<(<<"Hb1">>)>> \o
      ConcatAll([k \in 1..2 |->
          <<(<<"+1", "+1">>), (<<"\n">>)>> \o ScenarioCurves[k] \o <<(<<"\n">>)>>]) }

\* The options tried: the step given or None (then it is taken from the
\* curves), the method 'nearest' or a name griddata does not know.
ImportSteps == {None, I(3), I(1), Q(1, 2)}

ImportMethods == {"nearest", "quadratic"}

ImportInit ==
    /\ lines \in ScenarioFiles \cup WithDriftFiles \cup WithoutDriftFiles
    /\ imp = NewImporter
    /\ p_i = 0
    /\ p_mode = FALSE
    /\ p_pc = "start"
    /\ p_exc = ""
    /\ p_starts = <<>>
    /\ p_opts = None
    /\ SgIdle /\ DsIdle /\ DriftIdle /\ FlatIdle

\* PMCImporter.__init__ after _from_file, without drift correction: the step,
\* then _interpolate.
Interpolate ==
    /\ p_pc = "done"
    /\ \E step \in ImportSteps, method \in ImportMethods, tie \in {"first", "last"} :
         \E res \in {_interpolate(WithStep(imp, IF step = None THEN PMC_determine_step(imp)
                                                ELSE step),
                                   method, tie)} :
            /\ imp' = res.self
            /\ p_exc' = res.exc
            /\ p_pc' = IF res.exc = "" THEN "interpolated" ELSE "raised"
            /\ p_opts' = [step |-> step, method |-> method, tie |-> tie]
    /\ UNCHANGED <<lines, p_i, p_mode, p_starts>>
    /\ UNCHANGED <<sgVars, dsVars, driftVars, flatVars>>

ImportNext ==
    FindFirstDataPoint \/ LoopWithDrift \/ LoopWithoutDrift \/ ParseReturn \/ Interpolate

SpecImport == ImportInit /\ [][ImportNext]_vars

----------------------------------------------------------------------------
(* Claims about the import *)

ImportEnded == p_pc \in {"interpolated", "raised"}

\* The number of cells of an array that hold NaN.
Missing(a) == Cardinality({<<i, j>> \in (1..NRows(a)) \X (1..NCols(a)) : IsNaN(a[i][j])})

IsScenarioRun ==
    /\ lines \in ScenarioFiles
    /\ ImportEnded
    /\ p_opts # None
    /\ p_opts.step = I(3) /\ p_opts.method = "nearest"

\* C13 as stated: the two-curve file parsed and interpolated with step 3 and
\* method nearest gives a grid of 2 rows and 3 columns whose moments are those
\* of the two curves and of which exactly one cell is missing.
C13_ScenarioGridIs2x3 ==
    IsScenarioRun
    => /\ p_pc = "interpolated"
       /\ Len(imp.m) = 2
       /\ \A i \in 1..Len(imp.m) : Len(imp.m[i]) = 3
       /\ imp.m[1] = <<I(-1), I(0), I(1)>>
       /\ imp.m[2][2] = Q(1, 2) /\ imp.m[2][3] = I(1)
       /\ Missing(imp.m) = 1

\* C13, amended: while the two-curve file is parsed, every curve gets the
\* reversal field -1 of its first sample; the import with step 3 and method
\* nearest then succeeds with arrays h, hr and m of no rows: the mesh
\* np.arange(-1, 1, 3) x np.arange(-1, -1, 3) has no node, so the grid holds
\* no moment and no missing cell.
C13_ScenarioGridIsEmpty ==
    /\ (lines \in ScenarioFiles /\ p_pc = "done")
       => imp.hr = << <<I(-1), I(-1), I(-1)>>, <<I(-1), I(-1), I(-1)>> >>
    /\ IsScenarioRun
       => /\ p_pc = "interpolated"
          /\ imp.h = <<>> /\ imp.hr = <<>> /\ imp.m = <<>>

\* The two-curve file written without drift points has been imported with
\* step 3 and method nearest.
C13_Witness ==
    /\ IsScenarioRun
    /\ ~_has_drift_points(lines)
    /\ p_pc = "interpolated"

----------------------------------------------------------------------------
(* The drift correction: PMCImporter._drift_correction *)

MaxDriftCurves == 6

MaxRadius == 2

MaxDensity == 3

\* numpy.mean(self.drift_points)
average_drift(drift_points) == Div(SumSeq(drift_points), I(Len(drift_points)))

\* A moving average that pads the sequence with zeros.
MovingAverageZeroPadded(drift_points, radius) ==
    LET n == Len(drift_points)
        at(i) == IF i < 1 \/ i > n THEN I(0) ELSE drift_points[i]
    IN  AsTuple([i \in 1..n |->
            SumSeq([k \in 1..(2 * radius + 1) |->
                       Mul(at(i + k - 1 - radius), Q(1, 2 * radius + 1))])])

\* scipy.ndimage.convolve(self.drift_points, ones(2*radius+1)/(2*radius+1),
\* mode='nearest'): past either end the sequence repeats its end value.
moving_average(drift_points, radius) ==
    LET n == Len(drift_points)
        at(i) == IF i < 1 THEN drift_points[1]
                 ELSE IF i > n THEN drift_points[n] ELSE drift_points[i]
    IN  AsTuple([i \in 1..n |->
            SumSeq([k \in 1..(2 * radius + 1) |->
                       Mul(at(i + k - 1 - radius), Q(1, 2 * radius + 1))])])

\* numpy.arange(0, n, density), with n - 1 appended when it is not the last
\* of them (0-based indices, ascending).
decimated_drift_indices(n, density) ==
    LET m == (n - 1) \div density + 1
        idx == [k \in 1..m |-> (k - 1) * density]
    IN  IF idx[m] # n - 1 THEN Append(idx, n - 1) ELSE idx

\* scipy.interpolate.interp1d(xs, ys, kind='cubic')(x) for x within the knots:
\* the spline takes the value ys[k] at the knot xs[k]; through four knots the
\* not-a-knot spline is the cubic polynomial through the four points.
interp1d(xs, ys, x) ==
    IF \E k \in 1..Len(xs) : xs[k] = x
    THEN ys[CHOOSE k \in 1..Len(xs) : xs[k] = x]
    ELSE SumSeq([k \in 1..4 |->
             LET others == AsTuple(SelectSeq(<<1, 2, 3, 4>>, LAMBDA j : j # k))
                 w(j) == Q(x - xs[others[j]], xs[k] - xs[others[j]])
             IN  Mul(ys[k], Mul(w(1), Mul(w(2), w(3))))])

\* PMCImporter._drift_correction: the importer after the call and the
\* exception raised.  interp1d refuses fewer than four points with ValueError,
\* before anything is changed.
_drift_correction(self, radius, density) ==
    LET n == Len(self.drift_points)
        average == average_drift(self.drift_points)
        ma == moving_average(self.drift_points, radius)
        indices == decimated_drift_indices(n, density)
        decimated_values == AsTuple([k \in 1..Len(indices) |-> ma[indices[k] + 1]])
        drift(i) == Sub(interp1d(indices, decimated_values, i - 1), average)
    IN  IF Len(indices) < 4 THEN [exc |-> "ValueError", self |-> self]
        ELSE [exc |-> "",
              self |-> [self EXCEPT
                  !.drift_points = AsTuple([i \in 1..n |-> Sub(self.drift_points[i], drift(i))]),
                  !.m = AsTuple([i \in 1..n |->
                            AsTuple([j \in 1..Len(self.m[i]) |-> Sub(self.m[i][j], drift(i))])])]]

\* The drift samples tried, and an importer that has read a file of which
\* they are the drift samples: the curves have one and two samples in turn.
DriftValues == {I(1), I(2)}

ParsedImporter(drift_points) ==
    LET n == Len(drift_points)
        curve(k) == IF k % 2 = 1 THEN <<I(k)>> ELSE <<I(k), I(0 - k)>>
        field(k) == IF k % 2 = 1 THEN <<I(k)>> ELSE <<I(k), I(k + 1)>>
    IN  [h |-> AsTuple([k \in 1..n |-> field(k)]),
         hr |-> AsTuple([k \in 1..n |-> [j \in 1..Len(field(k)) |-> I(k)]]),
         m |-> AsTuple([k \in 1..n |-> curve(k)]),
         temperature |-> [is_none |-> TRUE, list |-> <<>>],
         drift_points |-> drift_points]

DriftInit ==
    /\ \E n \in 1..MaxDriftCurves : \E dp \in [1..n -> DriftValues] :
         imp = ParsedImporter(AsTuple(dp))
    /\ dc_args \in [radius : 0..MaxRadius, density : 1..MaxDensity]
    /\ dc_args.density = 1 \/ Len(decimated_drift_indices(Len(imp.m), dc_args.density)) <= 4
    /\ dc_pc = "init"
    /\ dc_exc = ""
    /\ dc_before = imp
    /\ SgIdle /\ DsIdle /\ ParseIdle /\ FlatIdle

DriftCorrection ==
    /\ dc_pc = "init"
    /\ LET r == _drift_correction(imp, dc_args.radius, dc_args.density)
       IN  /\ imp' = r.self
           /\ dc_exc' = r.exc
           /\ dc_pc' = IF r.exc = "" THEN "done" ELSE "raised"
    /\ UNCHANGED <<dc_args, dc_before>>
    /\ UNCHANGED <<sgVars, dsVars, flatVars, lines, p_i, p_mode, p_pc, p_exc, p_starts, p_opts>>

DriftNext == DriftCorrection

SpecDrift == DriftInit /\ [][DriftNext]_vars

IsConstant(xs) == \A i \in 1..Len(xs) : xs[i] = xs[1]

\* C9: drift correction of curves whose drift samples are all the same value
\* leaves every drift sample and every moment sample as it was, whatever the
\* radius (>= 0) and the density (>= 1).
C9_ConstantDriftUnchanged ==
    (dc_pc \in {"done", "raised"} /\ IsConstant(dc_before.drift_points))
    => imp.drift_points = dc_before.drift_points /\ imp.m = dc_before.m

C9_Witness ==
    /\ dc_pc = "done" /\ IsConstant(dc_before.drift_points)
    /\ dc_args.density = 2 /\ dc_args.radius = MaxRadius
    /\ Len(imp.m) = MaxDriftCurves

----------------------------------------------------------------------------
(* The flat extension: util.extend_flat, UniformForc._extend_flat *)

MaxFlatCols == 3

FlatRowCounts == {1, 2}

FlatCells == {NaN, I(1), I(2)}

FlatInit ==
    /\ \E R \in FlatRowCounts, C \in 1..MaxFlatCols : \E a \in [1..R -> [1..C -> FlatCells]] :
         fl_m = AsTuple([i \in 1..R |-> AsTuple(a[i])])
    /\ fl_i = 0
    /\ fl_pc = "loop"
    /\ fl_before = fl_m
    /\ SgIdle /\ DsIdle /\ ParseIdle /\ ImpIdle /\ DriftIdle

\* One iteration of the loop: arg_first_not_nan raises ValueError on a row
\* without a number, past the rows already filled.
FlatRow ==
    /\ fl_pc = "loop" /\ fl_i < NRows(fl_m)
    /\ IF arg_first_not_nan(fl_m[fl_i + 1]) = 0
       THEN fl_pc' = "raised" /\ UNCHANGED <<fl_m, fl_i>>
       ELSE /\ fl_m' = ExtendFlatRow(fl_m, fl_i + 1)
            /\ fl_i' = fl_i + 1
            /\ UNCHANGED fl_pc
    /\ UNCHANGED fl_before
    /\ UNCHANGED <<sgVars, dsVars, parseVars, driftVars>>

FlatReturn ==
    /\ fl_pc = "loop" /\ fl_i = NRows(fl_m)
    /\ fl_pc' = "done"
    /\ UNCHANGED <<fl_m, fl_i, fl_before>>
    /\ UNCHANGED <<sgVars, dsVars, parseVars, driftVars>>

FlatNext == FlatRow \/ FlatReturn

SpecFlat == FlatInit /\ [][FlatNext]_vars

\* C10: a row the fill has gone through, whose first number before the fill
\* was v at column j, holds v in every column before j and in every other
\* column the value it held before the fill.
C10_FlatFill ==
    \A i \in 1..fl_i :
        LET j == arg_first_not_nan(fl_before[i])
        IN  /\ j >= 1
            /\ \A c \in 1..Len(fl_m[i]) :
                  fl_m[i][c] = IF c < j THEN fl_before[i][j] ELSE fl_before[i][c]

C10_Witness ==
    /\ fl_pc = "done" /\ NRows(fl_m) = 2 /\ NCols(fl_m) >= 3
    /\ \E i \in 1..2 : /\ arg_first_not_nan(fl_before[i]) = 2
                       /\ IsNaN(fl_before[i][3])
                       /\ fl_m[i][1] = fl_before[i][2]

====
